---- MODULE Spec2Model ----
(***************************************************************************)
(* A model of the RAG demo application: the chat response stream           *)
(* (src/api/routes.py, chat_stream_handler.response_stream), the upload    *)
(* pipeline (routes.py upload_document with BlobStorageManager,            *)
(* SearchIndexManager) and the chunker (DocumentProcessor.chunk_text).     *)
(*                                                                         *)
(* Text is modelled as a sequence of atoms (one-character strings where    *)
(* the code looks at characters, longer literals where it only copies      *)
(* them), so concatenation is \o and an empty string is <<>>.              *)
(***************************************************************************)
EXTENDS Integers, Sequences, FiniteSets, TLC

VARIABLES
    \* ---- one chat request: the async generator response_stream ----
    c_sim,        \* search_index_manager: "none" | "noindex" | "ok"
    c_bsm,        \* blob_storage_manager is not None
    c_pc,         \* position of the generator
    c_hits,       \* rows the index query returned to search, in order
    c_sign,       \* outcome of the SAS loop for each source: "signed" | "failed" | "skipped"
    c_context,    \* context returned by search
    c_sources,    \* sources (citations); url rewritten in place by the SAS loop
    c_si,         \* index of the SAS loop
    c_sas,        \* calls made to generate_sas_url: <<blob_name, expiry_hours>>
    c_pulled,     \* number of upstream events pulled from chat_coroutine
    c_acc,        \* accumulated_message
    c_events,     \* events delivered to the consumer, in order
    c_msgs,       \* contents of the upstream tokens that carried content, in order
    c_err,        \* the exception caught by the handler / raised to the consumer
    c_path,       \* "none" | "success" | "model_failure" | "retrieval_failure" | "closed"
    c_late        \* events the generator yielded after the consumer closed it

VARIABLES
    \* ---- one call of DocumentProcessor.chunk_text ----
    k_doc,        \* the document handed to extract_text
    k_text,       \* text
    k_map,        \* char_to_page
    k_sents,      \* what nltk.sent_tokenize(text) returned
    k_raises,     \* the tokenizer raised instead (punkt unavailable, ...)
    k_k,          \* sentences_per_chunk
    k_st,         \* loop state: i, current_pos, chunks
    k_pc,         \* "loop" | "done"
    k_result      \* the list returned

chunkVars == <<k_doc, k_text, k_map, k_sents, k_raises, k_k, k_st, k_pc, k_result>>

VARIABLES
    \* ---- the upload endpoint and the two stores ----
    i_rag,        \* search_index_manager and blob_storage_manager are not None
    i_index,      \* SearchIndexManager._index is not None
    clock,        \* datetime.utcnow(), in whole seconds
    blobs,        \* Document Store: set of [name, content]
    index,        \* Index Store: set of documents, keyed by embedId
    req           \* the upload requests

ingestVars == <<i_rag, i_index, clock, blobs, index, req>>

chatVars == <<c_sim, c_bsm, c_hits, c_sign, c_pc, c_context, c_sources, c_si, c_sas, c_pulled,
              c_acc, c_events, c_msgs, c_err, c_path, c_late>>

VARIABLES
    \* ---- the lazily created clients of the two managers ----
    m_client,     \* SearchIndexManager._client: None or the instance
    m_service,    \* BlobStorageManager._blob_service_client
    m_container,  \* BlobStorageManager._container_client
    m_made,       \* how many instances of each class were constructed
    m_task        \* the requests in flight: what the accessors returned to each

clientVars == <<m_client, m_service, m_container, m_made, m_task>>

VARIABLES
    \* ---- the name of one blob ----
    n_filename,   \* file.filename of the upload
    n_blob,       \* blob_name
    n_original,   \* original_filename of generate_sas_url
    n_key,        \* embedId of a chunk of the file, once it was indexed
    n_pc          \* "new" | "named" | "foreign" | "done_named" | "done_foreign"

nameVars == <<n_filename, n_blob, n_original, n_key, n_pc>>

VARIABLES
    \* ---- one RateLimiter ----
    r_max,        \* max_requests
    r_window,     \* time_window
    r_clock,      \* time.time()
    r_requests,   \* self.requests
    r_granted,    \* the timestamps of the requests that were allowed, in order
    r_sleep       \* sleep_time of the time.sleep in progress, 0 when none

limiterVars == <<r_max, r_window, r_clock, r_requests, r_granted, r_sleep>>

VARIABLES
    \* ---- one call of VectorDB._embed_text ----
    e_configured, \* all([openai_endpoint, openai_api_key, openai_deployment])
    e_pc,         \* "start", "post", "sleep", "returned", "raised"
    e_attempt,    \* attempt of the for loop
    e_log,        \* one record per requests.post: status, Retry-After, wait_time slept
    e_result      \* the value returned, <<>> for None

embedVars == <<e_configured, e_pc, e_attempt, e_log, e_result>>

VARIABLES
    \* ---- one call of VectorDB.chunk_document ----
    d_document,   \* document
    d_size,       \* max_chunk_size
    d_pc,         \* "call" or "returned"
    d_chunks      \* the list returned

splitVars == <<d_document, d_size, d_pc, d_chunks>>

toolVars == <<clientVars, nameVars, limiterVars, embedVars, splitVars>>

vars == <<chatVars, chunkVars, ingestVars, toolVars>>

(***************************************************************************)
(* Sequence helpers                                                        *)
(***************************************************************************)
Range(s) == {s[i] : i \in 1..Len(s)}

Last(s) == s[Len(s)]

RECURSIVE Concat(_)
Concat(ss) == IF ss = <<>> THEN <<>> ELSE Head(ss) \o Concat(Tail(ss))

\* str.split(sep)[-1]: what follows the last occurrence of sep
AfterLast(s, sep) ==
    LET idx == {i \in 1..Len(s) : s[i] = sep}
        m   == IF idx = {} THEN 0 ELSE CHOOSE i \in idx : \A j \in idx : j <= i
    IN  SubSeq(s, m + 1, Len(s))

\* str.split(sep)[0]: what precedes the first occurrence of sep
BeforeFirst(s, sep) ==
    LET idx == {i \in 1..Len(s) : s[i] = sep}
        m   == IF idx = {} THEN Len(s) + 1 ELSE CHOOSE i \in idx : \A j \in idx : i <= j
    IN  SubSeq(s, 1, m - 1)


RECURSIVE Join(_, _)
\* sep.join(ss)
Join(ss, sep) ==
    IF ss = <<>> THEN <<>>
    ELSE IF Len(ss) = 1 THEN ss[1]
    ELSE ss[1] \o sep \o Join(Tail(ss), sep)

(***************************************************************************)
(* Chat request: data                                                      *)
(***************************************************************************)
\* page_number None (pages are 1-based)
None == 0

\* expiry_hours passed by the SAS loop
SasExpiryHours == 24

\* at most this many events come from the upstream token stream
MaxTokens == 3

\* every response of up to this many rows of the index search is tried
MaxHits == 1

PageStr(n) == <<"1", "2", "3", "4", "5", "6", "7", "8", "9">>[n]

HoursStr(h) == IF h = 24 THEN "24h" ELSE IF h = 1 THEN "1h" ELSE "h"

BlobEndpoint == <<"https:", "/", "/", "acct.blob", "/">>

ContainerName == <<"documents">>

\* blob_client.url of a blob in the container
BlobUrl(blob_name) == BlobEndpoint \o ContainerName \o <<"/">> \o blob_name

BlobA == <<"20250101", "_", "000000", "_", "a", ".", "p", "d", "f">>
BlobB == <<"20250101", "_", "000001", "_", "b", ".", "t", "x", "t">>

\* rows the index search can return (select: token, source_document,
\* source_url, chunk_index, page_number)
HitRow ==
    << [token |-> <<"t0">>, source_document |-> <<"a.pdf">>, source_url |-> BlobUrl(BlobA),
        chunk_index |-> 0, page_number |-> 1],
       [token |-> <<"t1">>, source_document |-> <<"a.pdf">>, source_url |-> BlobUrl(BlobA),
        chunk_index |-> 1, page_number |-> 2],
       [token |-> <<"t2">>, source_document |-> <<"b.txt">>, source_url |-> BlobUrl(BlobB),
        chunk_index |-> 0, page_number |-> None],
       [token |-> <<"t3">>, source_document |-> <<>>, source_url |-> <<>>,
        chunk_index |-> 0, page_number |-> None],
       [token |-> <<"t4">>, source_document |-> <<"c.md">>, source_url |-> <<>>,
        chunk_index |-> 0, page_number |-> None],
       [token |-> <<"t5">>, source_document |-> <<"a.pdf">>, source_url |-> BlobUrl(BlobA),
        chunk_index |-> 0, page_number |-> 1] >>

Hits == {HitRow[i] : i \in 1..Len(HitRow)}

\* responses of several rows that are tried whatever MaxHits is: rows equal
\* in the four citation fields, rows of one blob, rows of two blobs, rows
\* without a document or a url
ExampleHitLists ==
    { <<HitRow[1], HitRow[6]>>,
      <<HitRow[1], HitRow[2]>>,
      <<HitRow[1], HitRow[3]>>,
      <<HitRow[3], HitRow[2]>>,
      <<HitRow[4], HitRow[1]>>,
      <<HitRow[5], HitRow[3]>>,
      <<HitRow[2], HitRow[1], HitRow[6]>>,
      <<HitRow[1], HitRow[2], HitRow[3]>> }

\* every response of up to MaxHits rows, and the examples
HitLists == UNION {[1..n -> Hits] : n \in 0..MaxHits} \cup ExampleHitLists

\* events of the upstream token stream (StreamingChatCompletionsUpdate)
Tokens ==
    { [choices |-> FALSE, content |-> <<>>],
      [choices |-> TRUE,  content |-> <<>>],
      [choices |-> TRUE,  content |-> <<"a">>],
      [choices |-> TRUE,  content |-> <<"b", "c">>] }

CF == "(content_filter)"

\* exceptions chat_client.complete or the token iteration can raise:
\*   hasArgs / args0  e.args[0] (the handler tests '(content_filter)' in it)
\*   str              str(e)
\*   json             e.response.json() is available and holds
\*                      ['error']['innererror']['content_filter_result']
\*   rai              that dict's items, in order; an item without the key
\*                      'filtered' has wellFormed FALSE
Errors ==
    { [id |-> "generic",  hasArgs |-> TRUE,  args0 |-> <<"boom">>, str |-> <<"boom">>,
       json |-> FALSE, rai |-> <<>>],
      [id |-> "cancelled", hasArgs |-> FALSE, args0 |-> <<>>, str |-> <<>>,
       json |-> FALSE, rai |-> <<>>],
      [id |-> "filter", hasArgs |-> TRUE, args0 |-> <<CF, " blocked">>,
       str |-> <<CF, " blocked">>, json |-> TRUE,
       rai |-> << [k |-> "hate", wellFormed |-> TRUE, filtered |-> TRUE,
                   hasSeverity |-> TRUE, severity |-> "high"],
                  [k |-> "violence", wellFormed |-> TRUE, filtered |-> FALSE,
                   hasSeverity |-> TRUE, severity |-> "safe"],
                  [k |-> "jailbreak", wellFormed |-> TRUE, filtered |-> TRUE,
                   hasSeverity |-> FALSE, severity |-> ""] >>],
      [id |-> "filter_nojson", hasArgs |-> TRUE, args0 |-> <<CF, " blocked">>,
       str |-> <<CF, " no body">>, json |-> FALSE, rai |-> <<>>],
      [id |-> "filter_badrai", hasArgs |-> TRUE, args0 |-> <<CF, " blocked">>,
       str |-> <<CF, " odd body">>, json |-> TRUE,
       rai |-> << [k |-> "hate", wellFormed |-> TRUE, filtered |-> TRUE,
                   hasSeverity |-> TRUE, severity |-> "high"],
                  [k |-> "custom", wellFormed |-> FALSE, filtered |-> FALSE,
                   hasSeverity |-> FALSE, severity |-> ""] >>] }

\* what the generator receives when the consumer closes it at a yield
GeneratorExit ==
    [id |-> "GeneratorExit", hasArgs |-> FALSE, args0 |-> <<>>, str |-> <<>>,
     json |-> FALSE, rai |-> <<>>]

\* failures of SearchIndexManager.search
NoIndexError ==
    [id |-> "ValueError: index is absent", hasArgs |-> TRUE,
     args0 |-> <<"Unable to perform the operation as the index is absent. ">>,
     str |-> <<"Unable to perform the operation as the index is absent. ">>,
     json |-> FALSE, rai |-> <<>>]

EmbedError ==
    [id |-> "embed failed", hasArgs |-> TRUE, args0 |-> <<"embed">>, str |-> <<"embed">>,
     json |-> FALSE, rai |-> <<>>]

SearchError ==
    [id |-> "search failed", hasArgs |-> TRUE, args0 |-> <<"search">>, str |-> <<"search">>,
     json |-> FALSE, rai |-> <<>>]

NoError == [id |-> "", hasArgs |-> FALSE, args0 |-> <<>>, str |-> <<>>,
            json |-> FALSE, rai |-> <<>>]

(***************************************************************************)
(* SearchIndexManager.search: context and deduplicated sources             *)
(***************************************************************************)
source_info(result) ==
    [document |-> result.source_document, url |-> result.source_url,
     chunk_index |-> result.chunk_index, page_number |-> result.page_number]

RECURSIVE CollectSources_NoDedup(_, _)
\* Mutant of CollectSources: every source is appended
CollectSources_NoDedup(hits, sources) ==
    IF hits = <<>> THEN sources
    ELSE LET result == Head(hits)
         IN  IF result.source_document # <<>>
             THEN CollectSources_NoDedup(Tail(hits), Append(sources, source_info(result)))
             ELSE CollectSources_NoDedup(Tail(hits), sources)

RECURSIVE CollectSources(_, _)
\* the loop over the search response: a source is appended unless an equal
\* dict is already in the list
CollectSources(hits, sources) ==
    IF hits = <<>> THEN sources
    ELSE LET result == Head(hits)
             info   == source_info(result)
         IN  IF result.source_document # <<>> /\ info \notin Range(sources)
             THEN CollectSources(Tail(hits), Append(sources, info))
             ELSE CollectSources(Tail(hits), sources)

search_context(hits) ==
    Join([i \in 1..Len(hits) |-> hits[i].token], <<"\n------\n">>)

(***************************************************************************)
(* The SAS loop of response_stream and generate_sas_url                    *)
(***************************************************************************)
\* blob_name = source['url'].split('/')[-1].split('?')[0]
BlobNameOfUrl(url) == BeforeFirst(AfterLast(url, "/"), "?")

\* BlobStorageManager.generate_sas_url: endpoint + container/blob?token
generate_sas_url(blob_name, expiry_hours) ==
    BlobEndpoint \o ContainerName \o <<"/">> \o blob_name
        \o <<"?", "se=", HoursStr(expiry_hours), "&sig">>

\* Mutant of SignedUrl: the page fragment is never appended
SignedUrl_NoFragment(source) ==
    generate_sas_url(BlobNameOfUrl(source.url), SasExpiryHours)

\* the url the loop stores for a source when signing succeeds
SignedUrl(source) ==
    LET sas_url == generate_sas_url(BlobNameOfUrl(source.url), SasExpiryHours)
    IN  IF source.page_number # None
        THEN sas_url \o <<"#page=", PageStr(source.page_number)>>
        ELSE sas_url

NeedsSas(source) == source.url # <<>>

(***************************************************************************)
(* The events of the stream                                                *)
(***************************************************************************)
serialize_sse_event(data) == <<"data: ", data, "\n\n">>

\* json.loads of the payload of a serialised event
Data(ev) == ev[2]

MessageEvent(message) == [content |-> message, type |-> "message"]

\* Mutant of CompletedEvent: the content is that of the last message only
CompletedEvent_LastOnly(acc, sources) ==
    [content |-> IF acc = <<>> THEN <<>> ELSE <<Last(acc)>>,
     type |-> "completed_message", sources |-> sources]

CompletedEvent(acc, sources) ==
    [content |-> acc, type |-> "completed_message", sources |-> sources]

StreamEnd == [type |-> "stream_end"]

\* the except-branch: the content-filter text is built only when
\* e.args[0] exists and holds the marker, e.response.json() holds the
\* content_filter_result and every item of it has 'filtered'
ContentFilterProcessed(e) ==
    /\ e.hasArgs
    /\ CF \in Range(e.args0)
    /\ e.json
    /\ \A i \in 1..Len(e.rai) : e.rai[i].wellFormed

RECURSIVE FilterErrors(_)
FilterErrors(rai) ==
    IF rai = <<>> THEN <<>>
    ELSE LET v == Head(rai)
         IN  IF v.filtered
             THEN IF v.hasSeverity
                  THEN << <<v.k, ", severity: ", v.severity>> >> \o FilterErrors(Tail(rai))
                  ELSE << <<v.k>> >> \o FilterErrors(Tail(rai))
             ELSE FilterErrors(Tail(rai))

SafetyText(e) ==
    <<"We have found the next safety issues in the response: ">>
        \o Join(FilterErrors(e.rai), <<", ">>)

\* Mutant of ErrorResponse: the fallback to str(e) is missing, so `response`
\* keeps its initial value when the content-filter text was not built
ErrorResponse_NoFallback(e) ==
    IF ContentFilterProcessed(e) THEN SafetyText(e) ELSE <<"There is an error!">>

\* `response` at the yield of the except-branch
ErrorResponse(e) ==
    IF ContentFilterProcessed(e) THEN SafetyText(e) ELSE e.str

ErrorEvent(e) == [content |-> ErrorResponse(e), type |-> "completed_message"]

(***************************************************************************)
(* response_stream as a state machine.  c_pc:                              *)
(*   "start"        created, not yet run                                   *)
(*   "sign"         in the SAS loop, at source c_si                        *)
(*   "call"         at `await chat_client.complete(...)` (inside try)      *)
(*   "iter"         at `async for event in chat_coroutine` (inside try)    *)
(*   "y_msg"        suspended at the yield of a message (inside try)       *)
(*   "y_completed"  suspended at the yield of the success completed_message*)
(*                  (inside try)                                           *)
(*   "y_error"      suspended at the yield of the except-branch            *)
(*   "y_end"        suspended at the yield of stream_end                   *)
(*   "done"         returned (StopAsyncIteration)                          *)
(*   "raised"       an exception left the generator while it was iterated  *)
(*   "closed"       closed by the consumer, GeneratorExit propagated       *)
(*   "close_ignored" closed by the consumer, the generator yielded again   *)
(*                  (RuntimeError: async generator ignored GeneratorExit)  *)
(***************************************************************************)
InitChat ==
    /\ c_sim \in {"none", "noindex", "ok"}
    /\ c_bsm \in BOOLEAN
    /\ c_hits = <<>>
    /\ c_sign = <<>>
    /\ c_pc = "start"
    /\ c_context = <<>>
    /\ c_sources = <<>>
    /\ c_si = 0
    /\ c_sas = <<>>
    /\ c_pulled = 0
    /\ c_acc = <<>>
    /\ c_events = <<>>
    /\ c_msgs = <<>>
    /\ c_err = NoError
    /\ c_path = "none"
    /\ c_late = <<>>

ChatIdle ==
    /\ c_sim = "none"
    /\ c_bsm = FALSE
    /\ c_hits = <<>>
    /\ c_sign = <<>>
    /\ c_pc = "idle"
    /\ c_context = <<>>
    /\ c_sources = <<>>
    /\ c_si = 0
    /\ c_sas = <<>>
    /\ c_pulled = 0
    /\ c_acc = <<>>
    /\ c_events = <<>>
    /\ c_msgs = <<>>
    /\ c_err = NoError
    /\ c_path = "none"
    /\ c_late = <<>>

Deliver(data) == c_events' = Append(c_events, serialize_sse_event(data))

\* search_index_manager is None: no retrieval, sources stays []
RetrievalSkipped ==
    /\ c_pc = "start"
    /\ c_sim = "none"
    /\ c_pc' = "call"
    /\ UNCHANGED <<c_sim, c_bsm, c_hits, c_sign, c_context, c_sources, c_si, c_sas, c_pulled, c_acc,
                   c_events, c_msgs, c_err, c_path, c_late>>

\* search raises: _raise_if_no_index, the query embedding, the index query
\* or the iteration of its response.  The call is before the try block.
SearchRaises ==
    /\ c_pc = "start"
    /\ c_sim # "none"
    /\ c_err' \in (IF c_sim = "noindex" THEN {NoIndexError} ELSE {EmbedError, SearchError})
    /\ c_pc' = "raised"
    /\ c_path' = "retrieval_failure"
    /\ UNCHANGED <<c_sim, c_bsm, c_hits, c_sign, c_context, c_sources, c_si, c_sas, c_pulled, c_acc,
                   c_events, c_msgs, c_late>>

SearchReturns ==
    /\ c_pc = "start"
    /\ c_sim = "ok"
    /\ \E hits \in HitLists :
         LET sources == CollectSources(hits, <<>>)
         IN  /\ c_hits' = hits
             /\ c_context' = search_context(hits)
             /\ c_sources' = sources
             /\ IF sources # <<>> /\ c_bsm
                THEN c_pc' = "sign" /\ c_si' = 1
                ELSE c_pc' = "call" /\ c_si' = c_si
    /\ UNCHANGED <<c_sim, c_bsm, c_sign, c_sas, c_pulled, c_acc, c_events, c_msgs, c_err,
                   c_path, c_late>>

AfterSource == IF c_si = Len(c_sources) THEN "call" ELSE "sign"

\* one iteration of `for source in sources`: generate_sas_url returns
SignSource ==
    /\ c_pc = "sign"
    /\ LET source == c_sources[c_si]
       IN  IF NeedsSas(source)
           THEN /\ c_sas' = Append(c_sas, <<BlobNameOfUrl(source.url), SasExpiryHours>>)
                /\ c_sources' = [c_sources EXCEPT ![c_si].url = SignedUrl(source)]
                /\ c_sign' = Append(c_sign, "signed")
           ELSE /\ UNCHANGED <<c_sas, c_sources>>
                /\ c_sign' = Append(c_sign, "skipped")
    /\ c_pc' = AfterSource
    /\ c_si' = c_si + 1
    /\ UNCHANGED <<c_sim, c_bsm, c_hits, c_context, c_pulled, c_acc, c_events, c_msgs, c_err,
                   c_path, c_late>>

\* one iteration of the loop: generate_sas_url raises, the except logs it
SignSourceFails ==
    /\ c_pc = "sign"
    /\ NeedsSas(c_sources[c_si])
    /\ c_sas' = Append(c_sas, <<BlobNameOfUrl(c_sources[c_si].url), SasExpiryHours>>)
    /\ c_sign' = Append(c_sign, "failed")
    /\ c_pc' = AfterSource
    /\ c_si' = c_si + 1
    /\ UNCHANGED <<c_sim, c_bsm, c_hits, c_context, c_sources, c_pulled, c_acc, c_events, c_msgs,
                   c_err, c_path, c_late>>

\* chat_client.complete raises (also a cancellation delivered at the await)
CompleteRaises ==
    /\ c_pc = "call"
    /\ \E e \in Errors :
         /\ c_err' = e
         /\ Deliver(ErrorEvent(e))
    /\ c_pc' = "y_error"
    /\ c_path' = "model_failure"
    /\ UNCHANGED <<c_sim, c_bsm, c_hits, c_sign, c_context, c_sources, c_si, c_sas, c_pulled, c_acc,
                   c_msgs, c_late>>

CompleteReturns ==
    /\ c_pc = "call"
    /\ c_pc' = "iter"
    /\ UNCHANGED <<c_sim, c_bsm, c_hits, c_sign, c_context, c_sources, c_si, c_sas, c_pulled, c_acc,
                   c_events, c_msgs, c_err, c_path, c_late>>

\* the token stream produces an event; only one with choices and a non-empty
\* delta content is accumulated and yielded
NextToken ==
    /\ c_pc = "iter"
    /\ c_pulled < MaxTokens
    /\ c_pulled' = c_pulled + 1
    /\ \E event \in Tokens :
         IF event.choices /\ event.content # <<>>
         THEN /\ c_acc' = c_acc \o event.content
              /\ c_msgs' = Append(c_msgs, event.content)
              /\ Deliver(MessageEvent(event.content))
              /\ c_pc' = "y_msg"
         ELSE UNCHANGED <<c_acc, c_msgs, c_events, c_pc>>
    /\ UNCHANGED <<c_sim, c_bsm, c_hits, c_sign, c_context, c_sources, c_si, c_sas, c_err, c_path, c_late>>

\* the iteration of the token stream raises
IterationRaises ==
    /\ c_pc = "iter"
    /\ \E e \in Errors :
         /\ c_err' = e
         /\ Deliver(ErrorEvent(e))
    /\ c_pc' = "y_error"
    /\ c_path' = "model_failure"
    /\ UNCHANGED <<c_sim, c_bsm, c_hits, c_sign, c_context, c_sources, c_si, c_sas, c_pulled, c_acc,
                   c_msgs, c_late>>

\* the token stream ends: the success completed_message is yielded
StreamExhausted ==
    /\ c_pc = "iter"
    /\ Deliver(CompletedEvent(c_acc, c_sources))
    /\ c_pc' = "y_completed"
    /\ c_path' = "success"
    /\ UNCHANGED <<c_sim, c_bsm, c_hits, c_sign, c_context, c_sources, c_si, c_sas, c_pulled, c_acc,
                   c_msgs, c_err, c_late>>

\* the consumer asks for the next event after a message
ResumeAfterMessage ==
    /\ c_pc = "y_msg"
    /\ c_pc' = "iter"
    /\ UNCHANGED <<c_sim, c_bsm, c_hits, c_sign, c_context, c_sources, c_si, c_sas, c_pulled, c_acc,
                   c_events, c_msgs, c_err, c_path, c_late>>

\* after the success completed_message: leave the try, yield stream_end
ResumeAfterCompleted ==
    /\ c_pc = "y_completed"
    /\ Deliver(StreamEnd)
    /\ c_pc' = "y_end"
    /\ UNCHANGED <<c_sim, c_bsm, c_hits, c_sign, c_context, c_sources, c_si, c_sas, c_pulled, c_acc,
                   c_msgs, c_err, c_path, c_late>>

\* Mutant of ResumeAfterError: stream_end is yielded on the success path only
ResumeAfterError_NoEnd ==
    /\ c_pc = "y_error"
    /\ c_pc' = "done"
    /\ UNCHANGED <<c_sim, c_bsm, c_hits, c_sign, c_context, c_sources, c_si, c_sas, c_pulled, c_acc,
                   c_events, c_msgs, c_err, c_path, c_late>>

\* after the completed_message of the except-branch: yield stream_end
ResumeAfterError ==
    /\ c_pc = "y_error"
    /\ Deliver(StreamEnd)
    /\ c_pc' = "y_end"
    /\ UNCHANGED <<c_sim, c_bsm, c_hits, c_sign, c_context, c_sources, c_si, c_sas, c_pulled, c_acc,
                   c_msgs, c_err, c_path, c_late>>

\* after stream_end the generator returns
ResumeAfterEnd ==
    /\ c_pc = "y_end"
    /\ c_pc' = "done"
    /\ UNCHANGED <<c_sim, c_bsm, c_hits, c_sign, c_context, c_sources, c_si, c_sas, c_pulled, c_acc,
                   c_events, c_msgs, c_err, c_path, c_late>>

\* the consumer closes the generator while it is suspended at a yield inside
\* the try block: GeneratorExit is a BaseException, the except-branch catches
\* it and yields its completed_message
CloseInsideTry ==
    /\ c_pc \in {"y_msg", "y_completed"}
    /\ c_err' = GeneratorExit
    /\ c_late' = Append(c_late, serialize_sse_event(ErrorEvent(GeneratorExit)))
    /\ c_pc' = "close_ignored"
    /\ c_path' = "closed"
    /\ UNCHANGED <<c_sim, c_bsm, c_hits, c_sign, c_context, c_sources, c_si, c_sas, c_pulled, c_acc,
                   c_events, c_msgs>>

\* the consumer closes the generator while it is suspended at a yield outside
\* the try block: GeneratorExit leaves the generator
CloseOutsideTry ==
    /\ c_pc \in {"y_error", "y_end"}
    /\ c_pc' = "closed"
    /\ c_path' = "closed"
    /\ UNCHANGED <<c_sim, c_bsm, c_hits, c_sign, c_context, c_sources, c_si, c_sas, c_pulled, c_acc,
                   c_events, c_msgs, c_err, c_late>>

NextChat ==
    \/ RetrievalSkipped /\ UNCHANGED <<chunkVars, ingestVars, toolVars>>
    \/ SearchRaises /\ UNCHANGED <<chunkVars, ingestVars, toolVars>>
    \/ SearchReturns /\ UNCHANGED <<chunkVars, ingestVars, toolVars>>
    \/ SignSource /\ UNCHANGED <<chunkVars, ingestVars, toolVars>>
    \/ SignSourceFails /\ UNCHANGED <<chunkVars, ingestVars, toolVars>>
    \/ CompleteRaises /\ UNCHANGED <<chunkVars, ingestVars, toolVars>>
    \/ CompleteReturns /\ UNCHANGED <<chunkVars, ingestVars, toolVars>>
    \/ NextToken /\ UNCHANGED <<chunkVars, ingestVars, toolVars>>
    \/ IterationRaises /\ UNCHANGED <<chunkVars, ingestVars, toolVars>>
    \/ StreamExhausted /\ UNCHANGED <<chunkVars, ingestVars, toolVars>>
    \/ ResumeAfterMessage /\ UNCHANGED <<chunkVars, ingestVars, toolVars>>
    \/ ResumeAfterCompleted /\ UNCHANGED <<chunkVars, ingestVars, toolVars>>
    \/ ResumeAfterError /\ UNCHANGED <<chunkVars, ingestVars, toolVars>>
    \/ ResumeAfterEnd /\ UNCHANGED <<chunkVars, ingestVars, toolVars>>
    \/ CloseInsideTry /\ UNCHANGED <<chunkVars, ingestVars, toolVars>>
    \/ CloseOutsideTry /\ UNCHANGED <<chunkVars, ingestVars, toolVars>>


(***************************************************************************)
(* Claims about the chat stream (checked under SpecChat)                   *)
(***************************************************************************)
EventTypes == [i \in 1..Len(c_events) |-> Data(c_events[i]).type]

MessagesThen(j, tail) == [i \in 1..j |-> "message"] \o tail

\* the generator has stopped while being iterated (not closed by the consumer)
Ended == c_pc \in {"done", "raised"}

\* C1: the events delivered by response_stream are, at every moment, a prefix
\* of: the message events in generation order (one per upstream token that
\* carried content, with that token's content), then one completed_message,
\* then one stream_end; and once the generator has ended on the success path
\* or on the model-failure path it has delivered the whole sequence, with
\* nothing after stream_end.
C1_EventOrder ==
    LET j == Len(c_msgs)
    IN  /\ \E tail \in {<<>>, <<"completed_message">>, <<"completed_message", "stream_end">>} :
             EventTypes = MessagesThen(j, tail)
        /\ \A i \in 1..j : i <= Len(c_events) => Data(c_events[i]).content = c_msgs[i]
        /\ c_path \in {"success", "model_failure"} /\ Ended =>
             /\ c_pc = "done"
             /\ EventTypes = MessagesThen(j, <<"completed_message", "stream_end">>)

\* the model failed after two message events and the generator has returned
C1_Witness ==
    /\ c_pc = "done"
    /\ c_path = "model_failure"
    /\ Len(c_msgs) = 2

\* C2: whichever step of a chat request fails, response_stream raises no
\* exception to its consumer, and when it stops the last event it delivered
\* is stream_end.
C2_NeverRaises ==
    Ended => /\ c_pc = "done"
             /\ c_events # <<>>
             /\ Data(Last(c_events)) = StreamEnd

\* The text the except-branch is expected to send for each exception: the
\* categories and severities of a content-filter rejection (marker in
\* args[0], a content_filter_result in the response body), otherwise str(e).
ExpectedErrorText(e) ==
    IF e.id = "filter"
    THEN <<"We have found the next safety issues in the response: ",
           "hate", ", severity: ", "high", ", ", "jailbreak">>
    ELSE e.str

\* C3: once chat_client.complete or the token iteration has raised after j
\* message events, the stream holds those j messages, then one
\* completed_message whose content is the error-derived text (no sources, not
\* the accumulated answer), then at most stream_end, which is there when the
\* generator has returned; the success completed_message is never delivered.
C3_ModelFailure ==
    c_path = "model_failure" =>
        LET j == Len(c_msgs)
        IN  /\ Len(c_events) \in {j + 1, j + 2}
            /\ \A i \in 1..j : Data(c_events[i]) = MessageEvent(c_msgs[i])
            /\ Data(c_events[j + 1]) =
                 [content |-> ExpectedErrorText(c_err), type |-> "completed_message"]
            /\ Len(c_events) = j + 2 => Data(c_events[j + 2]) = StreamEnd
            /\ c_pc \in {"y_end", "done"} <=> Len(c_events) = j + 2
            /\ c_pc \in {"y_error", "y_end", "done"}

\* a generic error was raised by the token iteration after one message and
\* the stream has ended
C3_Witness ==
    /\ c_path = "model_failure"
    /\ c_pc = "done"
    /\ c_err.id \in {"generic", "filter_badrai"}
    /\ Len(c_msgs) = 1
    /\ c_acc # <<>>

\* C4: after the consumer closes response_stream at a yield, the generator
\* attempts to emit no further event.
C4_NoEventAfterClose ==
    c_path = "closed" => c_late = <<>>

(***************************************************************************)
(* DocumentProcessor: strings                                              *)
(***************************************************************************)
IsSpace(c) == c \in {" ", "\n", "\t"}

\* bool(s.strip()): some character of s is not whitespace
NonBlank(s) == \E i \in 1..Len(s) : ~IsSpace(s[i])

\* s.strip()
Strip(s) ==
    IF ~NonBlank(s) THEN <<>>
    ELSE LET keep == {i \in 1..Len(s) : ~IsSpace(s[i])}
             lo   == CHOOSE i \in keep : \A j \in keep : i <= j
             hi   == CHOOSE i \in keep : \A j \in keep : j <= i
         IN  SubSeq(s, lo, hi)

\* text.find(sub, start) for start >= 0: the lowest 0-based offset >= start
\* at which sub occurs in text, -1 when there is none
Find(text, sub, start) ==
    LET at == {p \in start..(Len(text) - Len(sub)) :
                  SubSeq(text, p + 1, p + Len(sub)) = sub}
    IN  IF at = {} THEN -1 ELSE CHOOSE p \in at : \A q \in at : p <= q

\* char_to_page.get(pos, None)
PageAt(char_to_page, pos) ==
    IF pos \in DOMAIN char_to_page THEN char_to_page[pos] ELSE None

RECURSIVE SplitOn(_, _)
\* s.split(sep) for a one-character sep
SplitOn(s, sep) ==
    LET idx == {i \in 1..Len(s) : s[i] = sep}
    IN  IF idx = {} THEN <<s>>
        ELSE LET m == CHOOSE i \in idx : \A j \in idx : i <= j
             IN  <<SubSeq(s, 1, m - 1)>> \o SplitOn(SubSeq(s, m + 1, Len(s)), sep)

\* sentences[i:i + n] (0-based i)
Slice(s, i, n) ==
    SubSeq(s, i + 1, IF i + n < Len(s) THEN i + n ELSE Len(s))

(***************************************************************************)
(* DocumentProcessor._extract_from_pdf                                     *)
(***************************************************************************)
RECURSIVE ExtractPages_OneSeparator(_, _, _, _, _)
\* Mutant of ExtractPages: the position advances by one separator character
ExtractPages_OneSeparator(pages, page_num, text_parts, char_to_page, current_pos) ==
    IF page_num > Len(pages) THEN <<text_parts, char_to_page>>
    ELSE LET page_text == pages[page_num]
         IN  IF NonBlank(page_text)
             THEN ExtractPages_OneSeparator(pages, page_num + 1, Append(text_parts, page_text),
                      [i \in DOMAIN char_to_page \cup
                              (current_pos..(current_pos + Len(page_text) - 1)) |->
                          IF i >= current_pos THEN page_num ELSE char_to_page[i]],
                      current_pos + Len(page_text) + 1)
             ELSE ExtractPages_OneSeparator(pages, page_num + 1, text_parts, char_to_page, current_pos)

RECURSIVE ExtractPages(_, _, _, _, _)
\* the loop over reader.pages: pages are the texts page.extract_text()
\* returns; the result is <<text_parts, char_to_page>>
ExtractPages(pages, page_num, text_parts, char_to_page, current_pos) ==
    IF page_num > Len(pages) THEN <<text_parts, char_to_page>>
    ELSE LET page_text == pages[page_num]
         IN  IF NonBlank(page_text)
             THEN ExtractPages(pages, page_num + 1, Append(text_parts, page_text),
                      [i \in DOMAIN char_to_page \cup
                              (current_pos..(current_pos + Len(page_text) - 1)) |->
                          IF i >= current_pos THEN page_num ELSE char_to_page[i]],
                      current_pos + Len(page_text) + 2)
             ELSE ExtractPages(pages, page_num + 1, text_parts, char_to_page, current_pos)

EmptyMap == [i \in {} |-> 0]

\* <<full_text, char_to_page>>
extract_from_pdf(pages) ==
    LET r == ExtractPages(pages, 1, <<>>, EmptyMap, 0)
    IN  <<Join(r[1], <<"\n", "\n">>), r[2]>>

(***************************************************************************)
(* DocumentProcessor.chunk_text                                            *)
(***************************************************************************)
\* sentences_per_chunk passed by upload_document
SentencesPerChunk == 4

\* lines per chunk of the fallback
FallbackLines == 10

\* nltk.sent_tokenize, as far as the model needs it: a sentence ends at a
\* "." that is followed by whitespace or by the end of the text; the
\* whitespace between two sentences belongs to neither
RECURSIVE SentTokenizeFrom(_, _)
SentTokenizeFrom(text, sofar) ==
    LET ends == {i \in 1..Len(text) :
                    text[i] = "." /\ (i = Len(text) \/ IsSpace(text[i + 1]))}
    IN  IF ends = {}
        THEN IF NonBlank(text) THEN Append(sofar, Strip(text)) ELSE sofar
        ELSE LET e == CHOOSE i \in ends : \A j \in ends : i <= j
             IN  SentTokenizeFrom(SubSeq(text, e + 1, Len(text)),
                                  Append(sofar, Strip(SubSeq(text, 1, e))))

sent_tokenize(text) == SentTokenizeFrom(text, <<>>)

\* Mutant of ChunkIteration: the slice takes one sentence too many, so
\* consecutive chunks overlap
ChunkIteration_Overlap(text, char_to_page, sentences, k, st) ==
    LET chunk == Join(Slice(sentences, st.i, k + 1), <<" ">>)
    IN  IF NonBlank(chunk)
        THEN LET chunk_start_pos == Find(text, chunk, st.current_pos)
             IN  [i |-> st.i + k,
                  current_pos |-> chunk_start_pos + Len(chunk),
                  chunks |-> Append(st.chunks,
                                [text |-> chunk,
                                 page_number |-> PageAt(char_to_page, chunk_start_pos)])]
        ELSE [st EXCEPT !.i = st.i + k]

\* one iteration of `for i in range(0, len(sentences), sentences_per_chunk)`
\* on the loop state st = [i, current_pos, chunks]
ChunkIteration(text, char_to_page, sentences, k, st) ==
    LET chunk == Join(Slice(sentences, st.i, k), <<" ">>)
    IN  IF NonBlank(chunk)
        THEN LET chunk_start_pos == Find(text, chunk, st.current_pos)
             IN  [i |-> st.i + k,
                  current_pos |-> chunk_start_pos + Len(chunk),
                  chunks |-> Append(st.chunks,
                                [text |-> chunk,
                                 page_number |-> PageAt(char_to_page, chunk_start_pos)])]
        ELSE [st EXCEPT !.i = st.i + k]

ChunkLoopStart == [i |-> 0, current_pos |-> 0, chunks |-> <<>>]

\* range(0, n, k) is exhausted (k < 0 gives an empty range)
LoopDone(sentences, k, st) == k < 0 \/ st.i >= Len(sentences)

RECURSIVE ChunkLoop(_, _, _, _, _)
ChunkLoop(text, char_to_page, sentences, k, st) ==
    IF LoopDone(sentences, k, st) THEN st.chunks
    ELSE ChunkLoop(text, char_to_page, sentences, k,
                   ChunkIteration(text, char_to_page, sentences, k, st))

\* Mutant of FallbackLinesOf: the lines are neither trimmed nor filtered
FallbackLinesOf_Raw(text) == SplitOn(text, "\n")

\* the except-branch: trimmed non-empty lines in runs of 10
FallbackLinesOf(text) ==
    LET raw   == SplitOn(text, "\n")
        lines == [i \in 1..Len(raw) |-> Strip(raw[i])]
    IN  SelectSeq(lines, LAMBDA l : l # <<>>)

FallbackChunks(text) ==
    LET lines == FallbackLinesOf(text)
        n     == (Len(lines) + FallbackLines - 1) \div FallbackLines
    IN  [g \in 1..n |->
            [text |-> Join(Slice(lines, (g - 1) * FallbackLines, FallbackLines), <<"\n">>),
             page_number |-> None]]

\* chunk_text for a tokenizer that returned `sentences`, or raised
\* (tokenizer_raises); range() raises ValueError for a step of 0
chunk_text(text, char_to_page, sentences, tokenizer_raises, k) ==
    IF tokenizer_raises \/ k = 0
    THEN FallbackChunks(text)
    ELSE ChunkLoop(text, char_to_page, sentences, k, ChunkLoopStart)

(***************************************************************************)
(* chunk_text as a state machine: inputs drawn in Init, one action per     *)
(* iteration of the loop                                                   *)
(***************************************************************************)
\* sentence sequences of up to this length are tried as tokenizer output
MaxSentences == 3

\* sentences_per_chunk ranges over 0..MaxK and the value upload_document uses
MaxK == 2

\* page texts of the PDF inputs (page.extract_text() per page)
PdfInputs ==
    { << <<"A", ".", " ", "B", ".">> >>,
      << <<"A", ".", " ", "B", ".">>, <<"A", ".">> >>,
      << <<"A", ".">>, <<" ", " ">>, <<"B", ".">> >>,
      << <<>>, <<"A", ".">>, <<"\n">> >>,
      << <<"A", ".", " ", "B", ".", " ", "C", ".", " ", "D", ".">>, <<"E", ".", " ", "F", ".">> >>,
      << <<"A", ".", "\n", "B", ".", " ", "C", ".", " ", "D", ".", " ", "E", ".", " ", "F", ".">>, <<"A", ".", " ", "B", ".">> >> }

\* texts of the inputs without pages (txt, md, docx)
PlainTexts ==
    { <<>>,
      <<"A", ".", "\n", "B", ".">>,
      <<"A", ".", " ", "B", ".", " ", " ", "A", ".">>,
      <<"a", "\n", " ", "b", "\n", "\n", "c", " ", "\n", "d", "\n", "e", "\n", "f", "\n", "g", "\n", "h", "\n", "i", "\n", "j", "\n", "k", "\n", "l">> }

\* the documents that are chunked: PDF page lists and plain texts
ChunkInputs ==
    {[kind |-> "pdf", pages |-> pages, text |-> <<>>] : pages \in PdfInputs}
        \cup {[kind |-> "text", pages |-> <<>>, text |-> t] : t \in PlainTexts}

SentencePool == { <<"A", ".">>, <<"B", ".">>, <<" ">> }

\* what the tokenizer may hand back for a text: the sentences of the text,
\* or sentences whose whitespace it altered; nothing for the empty text
TokenizerOutputs(text) ==
    IF text = <<>> THEN { <<>> }
    ELSE {sent_tokenize(text)}
            \cup UNION {[1..n -> SentencePool] : n \in 0..MaxSentences}

ChunkIdle ==
    /\ k_doc = [kind |-> "text", pages |-> <<>>, text |-> <<>>]
    /\ k_text = <<>>
    /\ k_map = EmptyMap
    /\ k_sents = <<>>
    /\ k_raises = FALSE
    /\ k_k = SentencesPerChunk
    /\ k_st = ChunkLoopStart
    /\ k_pc = "idle"
    /\ k_result = <<>>

InitChunk ==
    /\ k_doc \in ChunkInputs
    /\ k_text = <<>>
    /\ k_map = EmptyMap
    /\ k_sents = <<>>
    /\ k_raises \in BOOLEAN
    /\ k_k \in (0..MaxK) \cup {SentencesPerChunk}
    /\ k_st = ChunkLoopStart
    /\ k_pc = "extract"
    /\ k_result = <<>>

\* DocumentProcessor.extract_text returns text and char_to_page; chunk_text
\* is entered and the tokenizer hands back its sentences
ChunkExtract ==
    /\ k_pc = "extract"
    /\ LET doc == IF k_doc.kind = "pdf" THEN extract_from_pdf(k_doc.pages)
                  ELSE <<k_doc.text, EmptyMap>>
       IN  /\ k_text' = doc[1]
           /\ k_map' = doc[2]
           /\ k_sents' \in TokenizerOutputs(doc[1])
    /\ k_pc' = "loop"
    /\ UNCHANGED <<k_doc, k_raises, k_k, k_st, k_result>>

UsesFallback == k_raises \/ k_k = 0

\* the try block raised before the loop: the fallback list is returned
ChunkFallback ==
    /\ k_pc = "loop"
    /\ UsesFallback
    /\ k_result' = chunk_text(k_text, k_map, k_sents, k_raises, k_k)
    /\ k_pc' = "done"
    /\ UNCHANGED <<k_doc, k_text, k_map, k_sents, k_raises, k_k, k_st>>

\* one iteration of the loop
ChunkStep ==
    /\ k_pc = "loop"
    /\ ~UsesFallback
    /\ ~LoopDone(k_sents, k_k, k_st)
    /\ k_st' = ChunkIteration(k_text, k_map, k_sents, k_k, k_st)
    /\ UNCHANGED <<k_doc, k_text, k_map, k_sents, k_raises, k_k, k_pc, k_result>>

\* the loop is over: return chunks
ChunkReturn ==
    /\ k_pc = "loop"
    /\ ~UsesFallback
    /\ LoopDone(k_sents, k_k, k_st)
    /\ k_result' = k_st.chunks
    /\ k_pc' = "done"
    /\ UNCHANGED <<k_doc, k_text, k_map, k_sents, k_raises, k_k, k_st>>

NextChunk ==
    \/ ChunkExtract /\ UNCHANGED <<chatVars, ingestVars, toolVars>>
    \/ ChunkFallback /\ UNCHANGED <<chatVars, ingestVars, toolVars>>
    \/ ChunkStep /\ UNCHANGED <<chatVars, ingestVars, toolVars>>
    \/ ChunkReturn /\ UNCHANGED <<chatVars, ingestVars, toolVars>>

(***************************************************************************)
(* The upload endpoint: file names, keys, blob names                       *)
(***************************************************************************)
\* at most this many upload requests
MaxReq == 2

\* the clock advances at most this many seconds
MaxClock == 1

Reqs == 1..MaxReq

Lower(c) ==
    CASE c = "P" -> "p" [] c = "D" -> "d" [] c = "F" -> "f" [] OTHER -> c

\* s.lower()
LowerStr(s) == [i \in 1..Len(s) |-> Lower(s[i])]

\* Path(filename).suffix: from the last "." of the final path component,
\* unless that "." is its first or its last character
Suffix(filename) ==
    LET name == AfterLast(filename, "/")
        dots == {i \in 1..Len(name) : name[i] = "."}
    IN  IF dots = {} THEN <<>>
        ELSE LET d == CHOOSE i \in dots : \A j \in dots : j <= i
             IN  IF 1 < d /\ d < Len(name) THEN SubSeq(name, d, Len(name)) ELSE <<>>

SUPPORTED_EXTENSIONS == { <<".", "p", "d", "f">>, <<".", "d", "o", "c", "x">>, <<".", "t", "x", "t">>, <<".", "m", "d">> }

is_supported(filename) == LowerStr(Suffix(filename)) \in SUPPORTED_EXTENSIONS

\* s.replace(old, new) for one-character old
Replace(s, old, new) == [i \in 1..Len(s) |-> IF s[i] = old THEN new ELSE s[i]]

safe_document_name(source_document) ==
    Replace(Replace(source_document, ".", "_"), " ", "_")

Digit(d) == <<"0", "1", "2", "3", "4", "5", "6", "7", "8", "9">>[d + 1]

\* str(n) for 0 <= n <= 99
IntStr(n) == IF n < 10 THEN <<Digit(n)>> ELSE <<Digit(n \div 10), Digit(n % 10)>>

\* f"{safe_document_name}_{chunk_index}"
embedId(source_document, chunk_index) ==
    safe_document_name(source_document) \o <<"_">> \o IntStr(chunk_index)

\* datetime.utcnow().strftime('%Y%m%d_%H%M%S'): one value per second
SecondStr(t) == <<"000000", "000001", "000002", "000003", "000004">>[t + 1]

Timestamp(t) == <<"20250101", "_", SecondStr(t)>>

\* blob_name = f"{timestamp}_{filename}"
BlobName(t, filename) == Timestamp(t) \o <<"_">> \o filename

\* Mutant of IndexDoc: the key is taken from the blob name of this upload
\* instead of the document name
IndexDoc_BlobKey(chunk_data, chunk_index, source_document, source_url) ==
    [embedId |-> safe_document_name(BlobNameOfUrl(source_url))
                    \o <<"_">> \o IntStr(chunk_index),
     token |-> chunk_data.text,
     source_document |-> source_document,
     source_url |-> source_url,
     chunk_index |-> chunk_index,
     page_number |-> chunk_data.page_number]

\* the document upload_document_chunks builds for one chunk
IndexDoc(chunk_data, chunk_index, source_document, source_url) ==
    [embedId |-> embedId(source_document, chunk_index),
     token |-> chunk_data.text,
     source_document |-> source_document,
     source_url |-> source_url,
     chunk_index |-> chunk_index,
     page_number |-> chunk_data.page_number]

\* blob_client.upload_blob(file_content, overwrite=True)
StoreBlob(store, name, content) ==
    {b \in store : b.name # name} \cup {[name |-> name, content |-> content]}

\* blob_client.delete_blob()
DeleteBlob(store, name) == {b \in store : b.name # name}

\* SearchClient.upload_documents: a document replaces the one with its key
StoreDocuments(store, documents) ==
    {d \in store : \A i \in 1..Len(documents) : documents[i].embedId # d.embedId}
        \cup {documents[i] :
                 i \in {j \in 1..Len(documents) :
                           \A l \in (j + 1)..Len(documents) :
                               documents[l].embedId # documents[j].embedId}}

\* the files that are uploaded: a name and what the bytes hold
\*   body "text"     decodable text (txt, md)
\*   body "pages"    a PDF whose pages extract to `pages`
\*   body "corrupt"  bytes PdfReader cannot read
\*   tokenizer "punkt"  sent_tokenize splits the text into its sentences
\*   tokenizer "silent" sent_tokenize returns no sentence for the text
Files ==
    << [filename |-> <<"a", ".", "b", ".", "m", "d">>, body |-> "text", text |-> <<"A", ".", " ", "B", ".", " ", "C", ".", " ", "D", ".", " ", "E", ".">>,
        pages |-> <<>>, tokenizer |-> "punkt"],
       [filename |-> <<"a", ".", "b", ".", "m", "d">>, body |-> "text", text |-> <<"F", ".">>,
        pages |-> <<>>, tokenizer |-> "punkt"],
       [filename |-> <<"a", " ", "b", ".", "m", "d">>, body |-> "text", text |-> <<"B", ".">>,
        pages |-> <<>>, tokenizer |-> "punkt"],
       [filename |-> <<"a", ".", "c", "s", "v">>, body |-> "text", text |-> <<"A", ".">>,
        pages |-> <<>>, tokenizer |-> "punkt"],
       [filename |-> <<"b", ".", "P", "D", "F">>, body |-> "pages", text |-> <<>>,
        pages |-> << <<" ", " ">>, <<>> >>, tokenizer |-> "punkt"],
       [filename |-> <<"c", ".", "p", "d", "f">>, body |-> "corrupt", text |-> <<>>,
        pages |-> <<>>, tokenizer |-> "punkt"],
       [filename |-> <<"d", ".", "t", "x", "t">>, body |-> "text", text |-> <<"-">>,
        pages |-> <<>>, tokenizer |-> "silent"] >>

FileIds == 1..Len(Files)

\* DocumentProcessor.extract_text raises ValueError
ExtractRaises(file) ==
    LET ext == LowerStr(Suffix(file.filename))
    IN  \/ ext \notin SUPPORTED_EXTENSIONS
        \/ ext = <<".", "p", "d", "f">> /\ file.body # "pages"

\* DocumentProcessor.extract_text: <<text, char_to_page>>
extract_text(file) ==
    IF LowerStr(Suffix(file.filename)) = <<".", "p", "d", "f">>
    THEN extract_from_pdf(file.pages)
    ELSE <<file.text, EmptyMap>>

\* Mutant of TextIsBlank: the empty-text check never rejects
TextIsBlank_Never(text) == FALSE

\* `not text.strip()`
TextIsBlank(text) == ~NonBlank(text)

\* chunks = await DocumentProcessor.chunk_text(text, char_to_page, sentences_per_chunk=4)
ChunksOf(file) ==
    LET doc == extract_text(file)
    IN  chunk_text(doc[1], doc[2],
                   IF file.tokenizer = "punkt" THEN sent_tokenize(doc[1]) ELSE <<>>,
                   FALSE, SentencesPerChunk)

\* what upload_document derives from each file between lines 225 and 262,
\* tabulated once per file
Prepared ==
    [f \in FileIds |->
        [supported |-> is_supported(Files[f].filename),
         raises    |-> ExtractRaises(Files[f]),
         blank     |-> IF ExtractRaises(Files[f]) THEN FALSE
                       ELSE TextIsBlank(extract_text(Files[f])[1]),
         chunks    |-> IF ExtractRaises(Files[f]) THEN <<>> ELSE ChunksOf(Files[f])]]

(***************************************************************************)
(* upload_document as a process per request.  req[r].pc:                   *)
(*   "new"     not yet received                                            *)
(*   "upload"  validated, at `await blob_storage_manager.upload_document`  *)
(*   "embed"   in upload_document_chunks, at `await embeddings_client.embed`*)
(*   "write"   at `await self._get_client().upload_documents(documents)`   *)
(*   "done"    the JSONResponse was returned (status, error)               *)
(* calls is the request's log of calls to the stores and the embedder.     *)
(***************************************************************************)
NewRequest ==
    [pc |-> "new", file |-> 0, blob_name |-> <<>>, source_url |-> <<>>,
     chunks |-> <<>>, docs |-> <<>>, calls |-> <<>>, status |-> 0, error |-> ""]

IngestIdle ==
    /\ i_rag = FALSE
    /\ i_index = FALSE
    /\ clock = 0
    /\ blobs = {}
    /\ index = {}
    /\ req = [r \in Reqs |-> NewRequest]

InitIngest ==
    /\ i_rag \in BOOLEAN
    /\ i_index \in BOOLEAN
    /\ clock = 0
    /\ blobs = {}
    /\ index = {}
    /\ req = [r \in Reqs |-> NewRequest]

\* return JSONResponse(status_code=status, ...)
Respond(rec, status, error) ==
    [rec EXCEPT !.pc = "done", !.status = status, !.error = error]

\* upload_document up to the blob upload: the checks of lines 225-249
Receive(r) ==
    /\ req[r].pc = "new"
    /\ IF r = 1 THEN TRUE ELSE req[r - 1].pc # "new"
    /\ \E f \in FileIds :
         LET rec == [req[r] EXCEPT !.file = f]
         IN  req' = [req EXCEPT ![r] =
                IF ~i_rag THEN Respond(rec, 400, "rag_disabled")
                ELSE IF ~Prepared[f].supported THEN Respond(rec, 400, "unsupported")
                ELSE IF Prepared[f].raises THEN Respond(rec, 400, "extract_failed")
                ELSE IF Prepared[f].blank THEN Respond(rec, 400, "empty")
                ELSE [rec EXCEPT !.pc = "upload"]]
    /\ UNCHANGED <<i_rag, i_index, clock, blobs, index>>

\* the blob upload returns; chunk_text and _raise_if_no_index follow without
\* an await between them
BlobUploaded(r) ==
    /\ req[r].pc = "upload"
    /\ LET file   == Files[req[r].file]
           name   == BlobName(clock, file.filename)
           chunks == Prepared[req[r].file].chunks
           rec    == [req[r] EXCEPT !.blob_name = name, !.source_url = BlobUrl(name),
                                    !.chunks = chunks,
                                    !.calls = Append(@, "blob_upload")]
       IN  /\ blobs' = StoreBlob(blobs, name, req[r].file)
           /\ req' = [req EXCEPT ![r] =
                  IF chunks = <<>> THEN Respond(rec, 400, "no_chunks")
                  ELSE IF ~i_index THEN Respond(rec, 400, "no_index")
                  ELSE [rec EXCEPT !.pc = "embed"]]
    /\ UNCHANGED <<i_rag, i_index, clock, index>>

\* the blob upload raises: except Exception
BlobUploadFails(r) ==
    /\ req[r].pc = "upload"
    /\ req' = [req EXCEPT ![r] =
           Respond([req[r] EXCEPT !.calls = Append(@, "blob_upload")], 500, "upload_failed")]
    /\ UNCHANGED <<i_rag, i_index, clock, blobs, index>>

\* Mutant of EmbedReturns: the index write follows the first embedding
EmbedReturns_WriteEarly(r) ==
    /\ req[r].pc = "embed"
    /\ LET chunk_index == Len(req[r].docs)
           doc == IndexDoc(req[r].chunks[chunk_index + 1], chunk_index,
                           Files[req[r].file].filename, req[r].source_url)
       IN  req' = [req EXCEPT ![r].docs = Append(@, doc),
                              ![r].calls = Append(@, "embed"),
                              ![r].pc = "write"]
    /\ UNCHANGED <<i_rag, i_index, clock, blobs, index>>

\* the embedding of the next chunk returns: its document is built
EmbedReturns(r) ==
    /\ req[r].pc = "embed"
    /\ LET chunk_index == Len(req[r].docs)
           doc == IndexDoc(req[r].chunks[chunk_index + 1], chunk_index,
                           Files[req[r].file].filename, req[r].source_url)
       IN  req' = [req EXCEPT ![r].docs = Append(@, doc),
                              ![r].calls = Append(@, "embed"),
                              ![r].pc = IF chunk_index + 1 = Len(req[r].chunks)
                                        THEN "write" ELSE "embed"]
    /\ UNCHANGED <<i_rag, i_index, clock, blobs, index>>

\* Mutant of EmbedFails: the handler removes the blob it uploaded
EmbedFails_Rollback(r) ==
    /\ req[r].pc = "embed"
    /\ req' = [req EXCEPT ![r] =
           Respond([req[r] EXCEPT !.calls = Append(@, "embed")], 500, "embed_failed")]
    /\ blobs' = DeleteBlob(blobs, req[r].blob_name)
    /\ UNCHANGED <<i_rag, i_index, clock, index>>

\* the embedding of the next chunk raises: except Exception
EmbedFails(r) ==
    /\ req[r].pc = "embed"
    /\ req' = [req EXCEPT ![r] =
           Respond([req[r] EXCEPT !.calls = Append(@, "embed")], 500, "embed_failed")]
    /\ UNCHANGED <<i_rag, i_index, clock, blobs, index>>

\* upload_documents(documents) returns: the 200 response
IndexWritten(r) ==
    /\ req[r].pc = "write"
    /\ index' = StoreDocuments(index, req[r].docs)
    /\ req' = [req EXCEPT ![r] =
           Respond([req[r] EXCEPT !.calls = Append(@, "index_write")], 200, "")]
    /\ UNCHANGED <<i_rag, i_index, clock, blobs>>

\* upload_documents(documents) raises: except Exception
IndexWriteFails(r) ==
    /\ req[r].pc = "write"
    /\ req' = [req EXCEPT ![r] =
           Respond([req[r] EXCEPT !.calls = Append(@, "index_write")], 500, "index_failed")]
    /\ UNCHANGED <<i_rag, i_index, clock, blobs, index>>

\* a second passes.  The clock is read by the blob upload alone, so the
\* seconds that pass while no upload is pending are left out.
Tick ==
    /\ clock < MaxClock
    /\ \E r \in Reqs : req[r].pc = "upload"
    /\ clock' = clock + 1
    /\ UNCHANGED <<i_rag, i_index, blobs, index, req>>

NextIngest ==
    \/ \E r \in Reqs : Receive(r) /\ UNCHANGED <<chatVars, chunkVars, toolVars>>
    \/ \E r \in Reqs : BlobUploaded(r) /\ UNCHANGED <<chatVars, chunkVars, toolVars>>
    \/ \E r \in Reqs : BlobUploadFails(r) /\ UNCHANGED <<chatVars, chunkVars, toolVars>>
    \/ \E r \in Reqs : EmbedReturns(r) /\ UNCHANGED <<chatVars, chunkVars, toolVars>>
    \/ \E r \in Reqs : EmbedFails(r) /\ UNCHANGED <<chatVars, chunkVars, toolVars>>
    \/ \E r \in Reqs : IndexWritten(r) /\ UNCHANGED <<chatVars, chunkVars, toolVars>>
    \/ \E r \in Reqs : IndexWriteFails(r) /\ UNCHANGED <<chatVars, chunkVars, toolVars>>
    \/ Tick /\ UNCHANGED <<chatVars, chunkVars, toolVars>>

(***************************************************************************)
(* Claims about retrieval and the signing of citations (SpecChat)          *)
(***************************************************************************)
\* search has returned and the SAS loop has not yet touched a source
SearchJustReturned == c_sim = "ok" /\ c_pc \in {"sign", "call"} /\ c_sign = <<>>

\* the four citation fields of a result
Citation(h) ==
    [document |-> h.source_document, url |-> h.source_url,
     chunk_index |-> h.chunk_index, page_number |-> h.page_number]

\* the position of the first result that gives the citation c
FirstHit(hits, c) ==
    CHOOSE i \in 1..Len(hits) :
        /\ hits[i].source_document # <<>> /\ Citation(hits[i]) = c
        /\ \A j \in 1..(i - 1) : hits[j].source_document = <<>> \/ Citation(hits[j]) # c

\* C15: the citation list returned by search has no two entries equal in
\* (document, url, chunk_index, page_number); it holds exactly the citations
\* of the results that have a source_document (one for results equal in
\* the four fields, two for results that differ), in the order of their
\* first occurrence.
C15_Dedup ==
    SearchJustReturned =>
        /\ \A i, j \in 1..Len(c_sources) : i # j => c_sources[i] # c_sources[j]
        /\ Range(c_sources) =
              {Citation(c_hits[i]) :
                  i \in {j \in 1..Len(c_hits) : c_hits[j].source_document # <<>>}}
        /\ \A i, j \in 1..Len(c_sources) :
              i < j => FirstHit(c_hits, c_sources[i]) < FirstHit(c_hits, c_sources[j])

\* three results, the third equal to the second in the four fields but with
\* another token: two citations
C15_Witness ==
    /\ SearchJustReturned
    /\ Len(c_hits) = 3
    /\ Citation(c_hits[3]) = Citation(c_hits[2])
    /\ c_hits[3] # c_hits[2]
    /\ Len(c_sources) = 2

\* the SAS loop of a request with a blob storage manager is over
SigningOver == c_sim = "ok" /\ c_bsm /\ c_pc \notin {"start", "sign", "raised"}

\* the blobs the citations of the request refer to
CitedBlobs ==
    {BlobNameOfUrl(c_hits[i].source_url) :
        i \in {j \in 1..Len(c_hits) :
                  c_hits[j].source_document # <<>> /\ c_hits[j].source_url # <<>>}}

\* C16: within one chat request generate_sas_url is called once per blob the
\* citations refer to, each time with an expiry of 24 hours, also when
\* several citations refer to the same blob.
C16_OneSasPerBlob ==
    SigningOver =>
        /\ Len(c_sas) = Cardinality(CitedBlobs)
        /\ \A i \in 1..Len(c_sas) : c_sas[i][2] = 24

\* the stream of a request came to its end on the success path
SuccessOver == c_pc = "done" /\ c_path = "success" /\ Len(c_events) >= 2

\* the sources of the completed_message of a finished success stream
CompletedSources == Data(c_events[Len(c_events) - 1]).sources

\* the url search returned for the i-th citation
FoundUrl(i) == CollectSources(c_hits, <<>>)[i].url

\* C17: when signing failed for a citation, the completed_message still
\* lists every citation, the failed one with its url unset or empty and
\* every signed one with its own signed url; the loop went on to the
\* remaining citations and the stream ends with completed_message, then
\* stream_end.
C17_SigningFailureIsolated ==
    SuccessOver /\ c_bsm /\ "failed" \in Range(c_sign) =>
        /\ Len(c_sign) = Len(CompletedSources)
        /\ Data(c_events[Len(c_events) - 1]).type = "completed_message"
        /\ Data(c_events[Len(c_events)]).type = "stream_end"
        /\ \A i \in 1..Len(c_sign) :
              /\ c_sign[i] = "signed" =>
                    /\ CompletedSources[i].url # FoundUrl(i)
                    /\ BlobNameOfUrl(CompletedSources[i].url) = BlobNameOfUrl(FoundUrl(i))
                    /\ "&sig" \in Range(CompletedSources[i].url)
              /\ c_sign[i] = "failed" => CompletedSources[i].url = <<>>

\* the url generate_sas_url returned for the i-th citation
SasUrlOf(i) == generate_sas_url(BlobNameOfUrl(FoundUrl(i)), 24)

\* C18: in the sources of completed_message, a citation that was signed has
\* its signed url followed by "#page=<page_number>" when its page number is
\* known, and its signed url without a fragment when it is not.
C18_PageFragment ==
    SuccessOver /\ c_bsm =>
        \A i \in 1..Len(c_sign) :
            c_sign[i] = "signed" =>
                LET src == CompletedSources[i]
                IN  /\ src.page_number # None =>
                          src.url = SasUrlOf(i) \o <<"#page=", PageStr(src.page_number)>>
                    /\ src.page_number = None =>
                          /\ src.url = SasUrlOf(i)
                          /\ "#page=" \notin Range(src.url)

\* a finished stream whose completed_message cites a page of a PDF and a
\* text file without pages, both signed
C18_Witness ==
    /\ SuccessOver
    /\ c_bsm
    /\ c_sign = <<"signed", "signed">>
    /\ CompletedSources[1].page_number = 1
    /\ CompletedSources[2].page_number = None

\* C25: every completed_message event of the stream carries a content
\* field and a sources field, on the success path and on the model-failure
\* path.
C25_CompletedHasSources ==
    \A i \in 1..Len(c_events) :
        Data(c_events[i]).type = "completed_message" =>
            /\ "content" \in DOMAIN Data(c_events[i])
            /\ "sources" \in DOMAIN Data(c_events[i])

\* the contents of the message events among the first n events, in order
MessageContents(n) ==
    LET at == SelectSeq([i \in 1..n |-> i], LAMBDA i : Data(c_events[i]).type = "message")
    IN  [j \in 1..Len(at) |-> Data(c_events[at[j]]).content]

\* C29: on the success path, the content of completed_message is the
\* concatenation, in emission order, of the contents of the message events
\* emitted before it.
C29_CompletedIsConcatenation ==
    c_path = "success" =>
        \A i \in 1..Len(c_events) :
            Data(c_events[i]).type = "completed_message" =>
                Data(c_events[i]).content = Concat(MessageContents(i - 1))

\* three upstream events, one of them without content, gave two messages
\* and a completed_message with their concatenation
C29_Witness ==
    /\ c_path = "success"
    /\ c_pc = "done"
    /\ c_pulled = 3
    /\ Len(c_events) = 4
    /\ Data(c_events[1]).content # Data(c_events[2]).content
    /\ Data(c_events[3]).content = Data(c_events[1]).content \o Data(c_events[2]).content

(***************************************************************************)
(* Claims about the upload endpoint (checked under SpecIngest)             *)
(***************************************************************************)
Answered(r) == req[r].status # 0

FileOf(r) == Files[req[r].file]

\* the name ends, whatever the case of its letters, in "." and one of
\* pdf, docx, txt, md
EndsIn(name, ext) ==
    /\ Len(name) > Len(ext) + 1
    /\ name[Len(name) - Len(ext)] = "."
    /\ LowerStr(SubSeq(name, Len(name) - Len(ext) + 1, Len(name))) = ext

HasListedExtension(name) ==
    \E ext \in { <<"p", "d", "f">>, <<"d", "o", "c", "x">>, <<"t", "x", "t">>, <<"m", "d">> } : EndsIn(name, ext)

\* the text extracted from the file is empty or whitespace only
ExtractsNoText(file) ==
    /\ file.body \in {"text", "pages"}
    /\ Strip(IF file.body = "text" THEN file.text ELSE Concat(file.pages)) = <<>>

Count(calls, what) == Cardinality({i \in 1..Len(calls) : calls[i] = what})

\* the files whose extension is not listed or whose text is blank
RejectedFiles ==
    {f \in FileIds : ~HasListedExtension(Files[f].filename) \/ ExtractsNoText(Files[f])}

\* C5: a request rejected because the extension is not pdf/docx/txt/md, or
\* because the extracted text is empty or whitespace-only, is answered 400
\* and issued no blob upload, no embedding call and no index write.
C5_RejectedTouchesNothing ==
    \A r \in Reqs :
        Answered(r) /\ i_rag /\ req[r].file \in RejectedFiles =>
                /\ req[r].status = 400
                /\ req[r].calls = <<>>
                /\ req[r].blob_name = <<>>
                /\ \A b \in blobs : \E o \in Reqs : o # r /\ req[o].blob_name = b.name
                /\ \A d \in index : \E o \in Reqs : o # r /\ d \in Range(req[o].docs)

\* a .csv upload and an upload whose PDF pages are blank were both answered
C5_Witness ==
    /\ i_rag
    /\ \E r \in Reqs : Answered(r) /\ ~HasListedExtension(FileOf(r).filename)
    /\ \E r \in Reqs : Answered(r) /\ HasListedExtension(FileOf(r).filename)
                                   /\ ExtractsNoText(FileOf(r))

C7_DistinctBlobNames ==
    \A r1, r2 \in Reqs :
        r1 # r2 /\ req[r1].status = 200 /\ req[r2].status = 200 =>
            /\ req[r1].blob_name # req[r2].blob_name
            /\ \E b \in blobs : b.name = req[r1].blob_name /\ b.content = req[r1].file
            /\ \E b \in blobs : b.name = req[r2].blob_name /\ b.content = req[r2].file

\* the filenames that were ingested successfully
Ingested == {FileOf(r).filename : r \in {o \in Reqs : req[o].status = 200}}

\* the largest chunk count among the successful ingests of a filename
MaxChunks(name) ==
    LET ns == {Len(req[r].chunks) :
                  r \in {o \in Reqs : req[o].status = 200 /\ FileOf(o).filename = name}}
    IN  CHOOSE n \in ns : \A m \in ns : m <= n

\* C8: the index holds one record per key, and for every ingested filename
\* no more records than the largest chunk count among its successful
\* ingests.
C8_ReingestOverwrites ==
    /\ \A d1, d2 \in index : d1.embedId = d2.embedId => d1 = d2
    /\ \A name \in Ingested :
          Cardinality({d \in index : d.source_document = name}) <= MaxChunks(name)

\* the same filename was ingested twice, in different seconds, once with two
\* chunks and once with one
C8_Witness ==
    \E r1, r2 \in Reqs :
        /\ r1 # r2
        /\ req[r1].status = 200 /\ req[r2].status = 200
        /\ FileOf(r1).filename = FileOf(r2).filename
        /\ Len(req[r1].chunks) = 2 /\ Len(req[r2].chunks) = 1
        /\ req[r1].blob_name # req[r2].blob_name

\* C9: two documents built by upload_document_chunks that differ in
\* source_document or in chunk_index never have the same key.
C9_KeysUnique ==
    \A r1, r2 \in Reqs :
        \A d1 \in Range(req[r1].docs) : \A d2 \in Range(req[r2].docs) :
            (d1.source_document # d2.source_document \/ d1.chunk_index # d2.chunk_index)
                => d1.embedId # d2.embedId

\* C19: upload_document answers 400 for the validation failures (format not
\* supported, extracted text empty, no chunks) and 500 for every failure
\* raised by the blob store, the embedder or the index store, the failure
\* raised for an index that was not created included.
C19_StatusClasses ==
    \A r \in Reqs :
        Answered(r) /\ i_rag =>
            /\ req[r].error \in {"unsupported", "empty", "no_chunks"} => req[r].status = 400
            /\ req[r].error \in {"upload_failed", "embed_failed", "index_failed", "no_index"}
                  => req[r].status = 500

\* the calls of request r so far: the blob upload, then embeddings in
\* chunk order, then the index write once every chunk was embedded
CallsInOrder(r) ==
    LET calls == req[r].calls
        n     == Len(req[r].chunks)
        m     == Count(calls, "embed")
    IN  \/ calls = <<>>
        \/ /\ calls[1] = "blob_upload"
           /\ m <= n
           /\ m <= Len(req[r].docs) + 1
           /\ \A i \in 1..Len(req[r].docs) :
                 /\ req[r].docs[i].chunk_index = i - 1
                 /\ req[r].docs[i].token = req[r].chunks[i].text
           /\ \/ calls = <<"blob_upload">> \o [i \in 1..m |-> "embed"]
              \/ /\ calls = <<"blob_upload">> \o [i \in 1..n |-> "embed"] \o <<"index_write">>
                 /\ Len(req[r].docs) = n
                 /\ n > 0

\* a step adds at most one call to a request, and none once it was answered
OneCallAtATime(r) ==
    /\ \/ req'[r].calls = req[r].calls
       \/ Len(req'[r].calls) = Len(req[r].calls) + 1
            /\ SubSeq(req'[r].calls, 1, Len(req[r].calls)) = req[r].calls
    /\ req[r].pc = "done" => req'[r] = req[r]

\* C20: within one ingest request the calls are one blob upload, then one
\* embedding per chunk in chunk_index order, one after the other, then a
\* single index write with all chunks, issued only after every chunk was
\* embedded; nothing is retried and the first failure ends the request.
C20_CallOrder ==
    /\ [](\A r \in Reqs : CallsInOrder(r))
    /\ [][\A r \in Reqs : OneCallAtATime(r)]_vars
    /\ [](\A r \in Reqs :
            req[r].status \in {400, 500} => req[r].pc = "done" /\ "index_write" \notin
                Range(SubSeq(req[r].calls, 1, Len(req[r].calls) - 1)))

\* a two-chunk file was ingested: upload, two embeddings, one index write
C20_Witness ==
    \E r \in Reqs :
        /\ req[r].status = 200
        /\ req[r].calls = <<"blob_upload", "embed", "embed", "index_write">>
        /\ Len(req[r].docs) = 2

\* C30: after a successful re-ingest of a filename, every index record whose
\* source_document is that filename was written by that ingest (it carries
\* its source_url and chunk text), also when it produced fewer chunks than
\* an earlier ingest.
C30_ReingestReplaces ==
    [][\A r \in Reqs :
          (/\ req[r].pc = "write"
           /\ req'[r].status = 200
           /\ \E o \in Reqs : /\ o # r
                               /\ req[o].status = 200
                               /\ FileOf(o).filename = FileOf(r).filename)
          => \A d \in index' :
                 d.source_document = FileOf(r).filename
                     => \E i \in 1..Len(req[r].docs) :
                            /\ d = req[r].docs[i]
                            /\ d.source_url = req[r].source_url
                            /\ d.token = req[r].chunks[i].text]_vars

(***************************************************************************)
(* Claims about chunk_text (checked under SpecChunk)                       *)
(***************************************************************************)
\* the j-th group of k consecutive sentences, 1-based: s[(j-1)k+1 .. min(jk, n)]
SentenceGroup(s, k, j) ==
    [m \in 1..((IF j * k < Len(s) THEN j * k ELSE Len(s)) - (j - 1) * k) |->
        s[(j - 1) * k + m]]

NumGroups(s, k) == (Len(s) + k - 1) \div k

\* the sentences of a group written one after the other with one space
\* between two neighbours
RECURSIVE Spaced(_)
Spaced(g) ==
    IF Len(g) = 0 THEN <<>>
    ELSE IF Len(g) = 1 THEN g[1]
    ELSE Spaced(SubSeq(g, 1, Len(g) - 1)) \o <<" ">> \o g[Len(g)]

\* C10: when tokenisation produced s1..sn and sentences_per_chunk is k >= 1,
\* chunk_text returns, in document order, the texts of the groups
\* s[(j-1)k+1 .. min(jk, n)] joined by one space, without the groups whose
\* trimmed text is empty; every group but the last has exactly k sentences,
\* the groups together are the sentence sequence (each sentence in exactly
\* one group), and the empty text gives the empty list.
C10_SentenceGroups ==
    k_pc = "done" /\ ~k_raises /\ k_k >= 1 =>
        LET n       == NumGroups(k_sents, k_k)
            groups  == [j \in 1..n |-> SentenceGroup(k_sents, k_k, j)]
            texts   == [j \in 1..n |-> Spaced(groups[j])]
            kept    == SelectSeq(texts, LAMBDA t : Strip(t) # <<>>)
        IN  /\ [c \in 1..Len(k_result) |-> k_result[c].text] = kept
            /\ \A j \in 1..(n - 1) : Len(groups[j]) = k_k
            /\ n > 0 => Len(groups[n]) \in 1..k_k
            /\ Concat(groups) = k_sents
            /\ k_text = <<>> => k_result = <<>>

\* three sentences in groups of two: a full group and a shorter last one
C10_Witness ==
    /\ k_pc = "done"
    /\ ~k_raises
    /\ k_k = 2
    /\ Len(k_sents) = 3
    /\ Len(k_result) = 2

\* the tokenizer returned the sentences of the text, nothing raised and the
\* loop ran with a step of at least one
HonestRun == k_pc = "done" /\ ~k_raises /\ k_k >= 1 /\ k_sents = sent_tokenize(k_text)

\* the page numbers of the chunks in chunk order, without the None ones
PageNumbers(chunks) ==
    SelectSeq([c \in 1..Len(chunks) |-> chunks[c].page_number], LAMBDA pn : pn # None)

NonDecreasing(s) == \A i, j \in 1..Len(s) : i < j => s[i] <= s[j]

\* C11: for a PDF input, the page numbers of the returned chunks, in chunk
\* order and without the None ones, are non-decreasing.
C11_PagesNonDecreasing ==
    HonestRun /\ k_doc.kind = "pdf" => NonDecreasing(PageNumbers(k_result))

RECURSIVE SentenceOffsets(_, _, _, _)
\* the 0-based offsets at which the sentences stand in the text, one after
\* the other in document order
SentenceOffsets(text, sentences, from, sofar) ==
    IF Len(sofar) = Len(sentences) THEN sofar
    ELSE LET sent == sentences[Len(sofar) + 1]
             at   == CHOOSE o \in from..Len(text) :
                        /\ SubSeq(text, o + 1, o + Len(sent)) = sent
                        /\ \A o2 \in from..(o - 1) : SubSeq(text, o2 + 1, o2 + Len(sent)) # sent
         IN  SentenceOffsets(text, sentences, at + Len(sent), Append(sofar, at))

\* the page whose text holds the character at offset o of the joined text
RECURSIVE PageOfOffset(_, _, _, _)
PageOfOffset(pages, o, page_num, start) ==
    IF page_num > Len(pages) THEN None
    ELSE IF ~NonBlank(pages[page_num]) THEN PageOfOffset(pages, o, page_num + 1, start)
    ELSE IF o >= start /\ o < start + Len(pages[page_num]) THEN page_num
    ELSE PageOfOffset(pages, o, page_num + 1, start + Len(pages[page_num]) + 2)

ExamplePages == << <<"A", ".", " ", "B", ".", " ", "C", ".", " ", "D", ".">>, <<"E", ".", " ", "F", ".">> >>

\* C12: for a PDF input, a chunk's page_number, when not None, is the page
\* that holds the first character of the chunk where the chunk itself stands
\* in the document (the place of its first sentence); the 2-page example
\* with 4 and 2 sentences and sentences_per_chunk = 4 gives pages 1 and 2.
C12_PageOfOwnPosition ==
    HonestRun /\ k_doc.kind = "pdf" =>
        LET offs == SentenceOffsets(k_text, k_sents, 0, <<>>)
        IN  /\ \A c \in 1..Len(k_result) :
                  k_result[c].page_number # None =>
                      k_result[c].page_number =
                          PageOfOffset(k_doc.pages, offs[(c - 1) * k_k + 1], 1, 0)
            /\ k_doc.pages = ExamplePages /\ k_k = SentencesPerChunk =>
                  k_result = << [text |-> <<"A", ".", " ", "B", ".", " ", "C", ".", " ", "D", ".">>, page_number |-> 1],
                                [text |-> <<"E", ".", " ", "F", ".">>, page_number |-> 2] >>

RECURSIVE LinesFrom(_, _)
\* the lines of the text that start after position a (0, or the position of
\* a newline), each without its newline
LinesFrom(text, a) ==
    LET nls == {i \in (a + 1)..Len(text) : text[i] = "\n"}
    IN  IF nls = {} THEN <<SubSeq(text, a + 1, Len(text))>>
        ELSE LET b == CHOOSE i \in nls : \A j \in nls : i <= j
             IN  <<SubSeq(text, a + 1, b - 1)>> \o LinesFrom(text, b)

\* the trimmed lines of the text that are not empty, in order
TrimmedLines(text) ==
    LET raw == LinesFrom(text, 0)
    IN  SelectSeq([i \in 1..Len(raw) |-> Strip(raw[i])], LAMBDA l : Len(l) > 0)

\* C13: when tokenisation or the grouping loop raised (tokenizer failure,
\* sentences_per_chunk = 0), chunk_text returns the fallback: the non-empty
\* trimmed lines of the text in order, in runs of 10 (the last run may be
\* shorter), each run joined by newline, every chunk with page_number None.
C13_FallbackChunks ==
    k_pc = "done" /\ UsesFallback =>
        LET lines == TrimmedLines(k_text)
            runs  == [c \in 1..Len(k_result) |-> LinesFrom(k_result[c].text, 0)]
        IN  /\ \A c \in 1..Len(k_result) : k_result[c].page_number = None
            /\ Concat(runs) = lines
            /\ \A c \in 1..(Len(k_result) - 1) : Len(runs[c]) = 10
            /\ Len(k_result) > 0 => Len(runs[Len(k_result)]) \in 1..10
            /\ lines = <<>> => k_result = <<>>

\* sentences_per_chunk = 0 on a text of twelve non-empty lines: a run of ten
\* and a run of two
C13_Witness ==
    /\ k_pc = "done"
    /\ k_k = 0
    /\ ~k_raises
    /\ Len(k_result) = 2
    /\ Len(TrimmedLines(k_text)) = 12

RECURSIVE PageStart(_, _)
\* the offset in the joined text at which page n starts: the lengths of the
\* non-blank pages before it, each with its two separator characters
PageStart(pages, n) ==
    IF n = 1 THEN 0
    ELSE PageStart(pages, n - 1)
            + (IF NonBlank(pages[n - 1]) THEN Len(pages[n - 1]) + 2 ELSE 0)

\* C14: _extract_from_pdf returns the non-blank pages' texts joined by a
\* two-character separator and a map whose domain is exactly the offsets of
\* the page-text characters, each mapped to the 1-based number of the page
\* that holds it; blank pages give no text and no offsets, and the mapped
\* page number is non-decreasing in the offset.
C14_ExtractFromPdf ==
    k_pc # "extract" /\ k_doc.kind = "pdf" =>
        LET pages == k_doc.pages
            kept  == {n \in 1..Len(pages) : NonBlank(pages[n])}
            span(n) == PageStart(pages, n)..(PageStart(pages, n) + Len(pages[n]) - 1)
            last  == CHOOSE n \in kept : \A m \in kept : m <= n
        IN  /\ kept = {} => k_text = <<>> /\ DOMAIN k_map = {}
            /\ kept # {} => Len(k_text) = PageStart(pages, last) + Len(pages[last])
            /\ \A n \in kept : SubSeq(k_text, PageStart(pages, n) + 1,
                                        PageStart(pages, n) + Len(pages[n])) = pages[n]
            /\ DOMAIN k_map = UNION {span(n) : n \in kept}
            /\ \A n \in kept : \A i \in span(n) : k_map[i] = n
            /\ \A i, j \in DOMAIN k_map : i < j => k_map[i] <= k_map[j]

\* a PDF with a blank page between two pages of text: the text of page 3
\* starts right behind the separator that follows page 1
C14_Witness ==
    /\ k_pc # "extract"
    /\ k_doc.kind = "pdf"
    /\ Len(k_doc.pages) = 3
    /\ ~NonBlank(k_doc.pages[2])
    /\ Len(k_text) = 6
    /\ k_map[4] = 3

\* C23: the offset from which the text is searched for the next chunk never
\* decreases from one chunk to the next, also when a chunk is not found in
\* the text.
C23_SearchOffsetMonotonic ==
    [][k_pc = "loop" /\ k_sents = sent_tokenize(k_text)
          => k_st'.current_pos >= k_st.current_pos]_vars

(***************************************************************************)
(* The lazily created clients: SearchIndexManager._get_client and          *)
(* BlobStorageManager._get_blob_service_client / _get_container_client.    *)
(* Requests run as tasks of one event loop: a task is switched only where  *)
(* an await suspends.  _get_client is a plain function and the two blob    *)
(* accessors are coroutines whose only await is of another such coroutine, *)
(* so none of them is suspended between its test and its assignment.       *)
(***************************************************************************)
\* at most this many requests are in flight
MaxTasks == 2

\* every request calls the accessors at most this many times
MaxCalls == 2

Tasks == 1..MaxTasks

\* Mutant of GetOrCreate: the field is not tested, a new instance is made
GetOrCreate_NoTest(field, made) == [instance |-> made + 1, made |-> made + 1]

\* `if self._x is None: self._x = X(...)` / `return self._x`: instances are
\* numbered in the order of their construction
GetOrCreate(field, made) ==
    IF field = None THEN [instance |-> made + 1, made |-> made + 1]
    ELSE [instance |-> field, made |-> made]

ClientsIdle ==
    /\ m_client = None
    /\ m_service = None
    /\ m_container = None
    /\ m_made = [search |-> 0, service |-> 0, container |-> 0]
    /\ m_task = <<>>

InitClients ==
    /\ m_client = None
    /\ m_service = None
    /\ m_container = None
    /\ m_made = [search |-> 0, service |-> 0, container |-> 0]
    /\ m_task = [t \in Tasks |-> <<>>]

Returned(t, kind, instance) ==
    m_task' = [m_task EXCEPT ![t] = Append(@, <<kind, instance>>)]

\* SearchIndexManager._get_client(), called by search, upload_documents, ...
GetClient(t) ==
    /\ Len(m_task[t]) < MaxCalls
    /\ LET g == GetOrCreate(m_client, m_made.search)
       IN  /\ m_client' = g.instance
           /\ m_made' = [m_made EXCEPT !.search = g.made]
           /\ Returned(t, "search", g.instance)
    /\ UNCHANGED <<m_service, m_container>>

\* await BlobStorageManager._get_blob_service_client() (generate_sas_url)
GetBlobServiceClient(t) ==
    /\ Len(m_task[t]) < MaxCalls
    /\ LET g == GetOrCreate(m_service, m_made.service)
       IN  /\ m_service' = g.instance
           /\ m_made' = [m_made EXCEPT !.service = g.made]
           /\ Returned(t, "service", g.instance)
    /\ UNCHANGED <<m_client, m_container>>

\* await BlobStorageManager._get_container_client() (upload_document, ...):
\* the service client is got or created first when the container client is
\* absent; get_container_client(name) builds the ContainerClient
GetContainerClient(t) ==
    /\ Len(m_task[t]) < MaxCalls
    /\ LET s == IF m_container = None THEN GetOrCreate(m_service, m_made.service)
                ELSE [instance |-> m_service, made |-> m_made.service]
           g == GetOrCreate(m_container, m_made.container)
       IN  /\ m_service' = s.instance
           /\ m_container' = g.instance
           /\ m_made' = [m_made EXCEPT !.service = s.made, !.container = g.made]
           /\ Returned(t, "container", g.instance)
    /\ UNCHANGED m_client

NextClients ==
    \/ \E t \in Tasks : GetClient(t) /\ UNCHANGED <<chatVars, chunkVars, ingestVars, nameVars, limiterVars, embedVars, splitVars>>
    \/ \E t \in Tasks : GetBlobServiceClient(t) /\ UNCHANGED <<chatVars, chunkVars, ingestVars, nameVars, limiterVars, embedVars, splitVars>>
    \/ \E t \in Tasks : GetContainerClient(t) /\ UNCHANGED <<chatVars, chunkVars, ingestVars, nameVars, limiterVars, embedVars, splitVars>>

\* what the accessors of a kind returned, to any request
ReturnedOf(kind) ==
    UNION {{m_task[t][i][2] : i \in {j \in 1..Len(m_task[t]) : m_task[t][j][1] = kind}} :
              t \in Tasks}

\* C21: under any interleaving of the requests, at most one SearchClient,
\* one BlobServiceClient and one ContainerClient are ever constructed, and
\* every call of an accessor returns that one instance.
C21_OneInstance ==
    /\ m_made.search <= 1 /\ m_made.service <= 1 /\ m_made.container <= 1
    /\ \A kind \in {"search", "service", "container"} : Cardinality(ReturnedOf(kind)) <= 1
    /\ ReturnedOf("search") \subseteq {m_client}
    /\ ReturnedOf("service") \subseteq {m_service}
    /\ ReturnedOf("container") \subseteq {m_container}

\* two requests each got the container client first, one of them then the
\* service client: one instance of each was made
C21_Witness ==
    /\ \A t \in Tasks : m_task[t] # <<>> /\ m_task[t][1][1] = "container"
    /\ \E t \in Tasks : Len(m_task[t]) = 2 /\ m_task[t][2][1] = "service"
    /\ m_made.service = 1
    /\ m_made.container = 1

(***************************************************************************)
(* Blob names: upload_document builds them, generate_sas_url takes the     *)
(* original filename back out of them                                      *)
(***************************************************************************)
\* filenames of up to this many characters are tried
MaxName == 4

NameChars == {"a", "m", "d", "_", ".", "+"}

Filenames == UNION {[1..n -> NameChars] : n \in 1..MaxName}

RECURSIVE SplitMax(_, _, _)
\* s.split(sep, maxsplit) for a one-character sep
SplitMax(s, sep, maxsplit) ==
    LET idx == {i \in 1..Len(s) : s[i] = sep}
    IN  IF maxsplit = 0 \/ idx = {} THEN <<s>>
        ELSE LET m == CHOOSE i \in idx : \A j \in idx : i <= j
             IN  <<SubSeq(s, 1, m - 1)>> \o SplitMax(SubSeq(s, m + 1, Len(s)), sep, maxsplit - 1)

\* Mutant of original_filename: the split is not limited to two
original_filename_SplitAll(blob_name) ==
    IF "_" \in Range(blob_name) /\ Len(SplitOn(blob_name, "_")) >= 3
    THEN SplitOn(blob_name, "_")[3]
    ELSE blob_name

\* generate_sas_url: parts = blob_name.split('_', 2)
original_filename(blob_name) ==
    IF "_" \in Range(blob_name) /\ Len(SplitMax(blob_name, "_", 2)) >= 3
    THEN SplitMax(blob_name, "_", 2)[3]
    ELSE blob_name

NamesIdle ==
    /\ n_filename = <<>>
    /\ n_blob = <<>>
    /\ n_original = <<>>
    /\ n_key = <<>>
    /\ n_pc = "idle"

InitNames ==
    /\ n_filename \in Filenames
    /\ n_blob = <<>>
    /\ n_original = <<>>
    /\ n_key = <<>>
    /\ n_pc = "new"

\* upload_document names the blob after the second in which it runs
NameBlob ==
    /\ n_pc = "new"
    /\ \E t \in 0..MaxClock : n_blob' = BlobName(t, n_filename)
    /\ n_pc' = "named"
    /\ UNCHANGED <<n_filename, n_original, n_key>>

\* the blob was not named by upload_document: any name is possible
ForeignBlob ==
    /\ n_pc = "new"
    /\ n_blob' = n_filename
    /\ n_pc' = "foreign"
    /\ UNCHANGED <<n_filename, n_original, n_key>>

\* generate_sas_url(blob_name) computes original_filename
ExtractOriginal ==
    /\ n_pc \in {"named", "foreign"}
    /\ n_original' = original_filename(n_blob)
    /\ n_pc' = IF n_pc = "named" THEN "done_named" ELSE "done_foreign"
    /\ UNCHANGED <<n_filename, n_blob, n_key>>

\* upload_document_chunks builds the key of a chunk of the uploaded file;
\* the endpoint has accepted the filename (is_supported)
BuildKey ==
    /\ n_pc \in {"named", "done_named"}
    /\ n_key = <<>>
    /\ is_supported(n_filename)
    /\ \E chunk_index \in 0..1 : n_key' = embedId(n_filename, chunk_index)
    /\ UNCHANGED <<n_filename, n_blob, n_original, n_pc>>

NextNames ==
    \/ BuildKey /\ UNCHANGED <<chatVars, chunkVars, ingestVars, clientVars, limiterVars, embedVars, splitVars>>
    \/ NameBlob /\ UNCHANGED <<chatVars, chunkVars, ingestVars, clientVars, limiterVars, embedVars, splitVars>>
    \/ ForeignBlob /\ UNCHANGED <<chatVars, chunkVars, ingestVars, clientVars, limiterVars, embedVars, splitVars>>
    \/ ExtractOriginal /\ UNCHANGED <<chatVars, chunkVars, ingestVars, clientVars, limiterVars, embedVars, splitVars>>

\* C22: the filename generate_sas_url takes out of a blob name built by
\* upload_document is the original filename, also when that filename holds
\* underscores; a blob name with fewer than two underscores is used as it is.
C22_FilenameRoundTrip ==
    /\ n_pc = "done_named" => n_original = n_filename
    /\ n_pc = "done_foreign" /\ Cardinality({i \in 1..Len(n_blob) : n_blob[i] = "_"}) < 2
          => n_original = n_blob

\* the filename "_a_" went through the blob name and came back
C22_Witness ==
    /\ n_pc = "done_named"
    /\ n_filename = <<"_", "a", "_">>
    /\ n_original = <<"_", "a", "_">>

\* letters, digits, underscore, dash and equal sign, as far as they occur
KeyChars == {"a", "m", "d", "_", "-", "=", "0", "1", "2", "3", "4", "5", "6", "7", "8", "9"}

\* C24: the key built for a chunk of an accepted filename consists only of
\* letters, digits, underscore, dash and equal sign.
C24_KeyCharacters ==
    \A i \in 1..Len(n_key) : n_key[i] \in KeyChars

(***************************************************************************)
(* RateLimiter (workshop tools)                                            *)
(***************************************************************************)
\* the clock runs from 0 to this value
MaxNow == 4

\* at most this many requests are allowed in a run
MaxGrants == 3

LimiterIdle ==
    /\ r_max = 1
    /\ r_window = 1
    /\ r_clock = 0
    /\ r_requests = <<>>
    /\ r_granted = <<>>
    /\ r_sleep = 0

\* RateLimiter(max_requests, time_window)
InitLimiter ==
    /\ r_max \in 1..2
    /\ r_window \in 1..2
    /\ r_clock = 0
    /\ r_requests = <<>>
    /\ r_granted = <<>>
    /\ r_sleep = 0

RECURSIVE DropOld(_, _)
\* while self.requests and self.requests[0] < now - self.time_window: popleft()
DropOld(requests, limit) ==
    IF requests # <<>> /\ Head(requests) < limit THEN DropOld(Tail(requests), limit)
    ELSE requests

\* acquire() up to its return or its time.sleep
Acquire ==
    /\ r_sleep = 0
    /\ Len(r_granted) < MaxGrants
    /\ LET now        == r_clock
           kept       == DropOld(r_requests, now - r_window)
           sleep_time == IF kept = <<>> THEN 0 ELSE Head(kept) + r_window - now
       IN  IF Len(kept) >= r_max /\ sleep_time > 0
           THEN /\ r_requests' = kept
                /\ r_sleep' = sleep_time
                /\ UNCHANGED r_granted
           ELSE /\ r_requests' = Append(kept, now)
                /\ r_granted' = Append(r_granted, now)
                /\ UNCHANGED r_sleep
    /\ UNCHANGED <<r_max, r_window, r_clock>>

\* time.sleep(sleep_time) returns after sleep_time seconds or more; acquire
\* calls itself
WakeUp ==
    /\ r_sleep > 0
    /\ \E t \in (r_clock + r_sleep)..MaxNow : r_clock' = t
    /\ r_sleep' = 0
    /\ UNCHANGED <<r_max, r_window, r_requests, r_granted>>

\* time passes between two calls of acquire
LimiterTick ==
    /\ r_sleep = 0
    /\ r_clock < MaxNow
    /\ r_clock' = r_clock + 1
    /\ UNCHANGED <<r_max, r_window, r_requests, r_granted, r_sleep>>

NextLimiter ==
    \/ Acquire /\ UNCHANGED <<chatVars, chunkVars, ingestVars, clientVars, nameVars, embedVars, splitVars>>
    \/ WakeUp /\ UNCHANGED <<chatVars, chunkVars, ingestVars, clientVars, nameVars, embedVars, splitVars>>
    \/ LimiterTick /\ UNCHANGED <<chatVars, chunkVars, ingestVars, clientVars, nameVars, embedVars, splitVars>>

\* C26: for max_requests >= 1 and a non-decreasing clock, the granted
\* requests whose timestamps lie within any span of time_window seconds,
\* boundaries included, never exceed max_requests, and the recorded
\* timestamps are in non-decreasing order.
C26_WindowLimit ==
    /\ \A t \in 0..MaxNow :
          Cardinality({i \in 1..Len(r_granted) :
                          t <= r_granted[i] /\ r_granted[i] <= t + r_window}) <= r_max
    /\ \A i, j \in 1..Len(r_requests) : i < j => r_requests[i] <= r_requests[j]

(***************************************************************************)
(* VectorDB._embed_text (workshop tools)                                   *)
(***************************************************************************)
max_retries == 5

base_delay == 5

IsDigit(ch) == \E d \in 0..9 : Digit(d) = ch

DigitValue(ch) == CHOOSE d \in 0..9 : Digit(d) = ch

RECURSIVE DecimalValue(_)
DecimalValue(str) ==
    IF str = <<>> THEN 0
    ELSE 10 * DecimalValue(SubSeq(str, 1, Len(str) - 1)) + DigitValue(str[Len(str)])

\* int(retry_after) raises ValueError unless the text is a decimal number
IntRaises(str) == str = <<>> \/ \E i \in 1..Len(str) : ~IsDigit(str[i])

\* e.response.headers.get('Retry-After'): <<>> when there is none, seconds,
\* or an HTTP date
RetryAfterHeaders == {<<>>, <<"7">>, <<"6", "0">>, <<"S", "a", "t">>}

\* the outcome of requests.post and raise_for_status: 200, an HTTP error
\* status, or 0 when no response arrived (timeout, connection error)
PostOutcomes == {200, 429, 500, 0}

Max(a, b) == IF a >= b THEN a ELSE b

RECURSIVE Pow2(_)
Pow2(n) == IF n = 0 THEN 1 ELSE 2 * Pow2(n - 1)

\* wait_time of the 429 branch
WaitTime(attempt, retry_after) ==
    LET wait_time == base_delay * Pow2(attempt)
    IN  IF retry_after # <<>> /\ ~IntRaises(retry_after)
        THEN Max(wait_time, DecimalValue(retry_after))
        ELSE wait_time

MayRetry_Always(attempt) == attempt < max_retries

\* if attempt < max_retries - 1
MayRetry(attempt) == attempt < max_retries - 1

EmbedIdle ==
    /\ e_configured = FALSE
    /\ e_pc = "idle"
    /\ e_attempt = 0
    /\ e_log = <<>>
    /\ e_result = <<>>

InitEmbed ==
    /\ e_configured \in BOOLEAN
    /\ e_pc = "start"
    /\ e_attempt = 0
    /\ e_log = <<>>
    /\ e_result = <<>>

\* the configuration test, openai_rate_limiter.acquire(), entry of the loop
EmbedStart ==
    /\ e_pc = "start"
    /\ e_pc' = IF e_configured THEN "post" ELSE "raised"
    /\ UNCHANGED <<e_configured, e_attempt, e_log, e_result>>

\* one requests.post with its try/except
Post ==
    /\ e_pc = "post"
    /\ \E status \in PostOutcomes, retry_after \in RetryAfterHeaders :
          /\ status # 429 => retry_after = <<>>
          /\ IF status = 200
             THEN /\ e_pc' = "returned"
                  /\ e_result' = <<"embedding", e_attempt>>
                  /\ e_log' = Append(e_log, [status |-> status, retry_after |-> retry_after, wait |-> 0])
             ELSE IF status = 429 /\ MayRetry(e_attempt)
             THEN /\ e_pc' = "sleep"
                  /\ e_log' = Append(e_log, [status |-> status, retry_after |-> retry_after,
                                              wait |-> WaitTime(e_attempt, retry_after)])
                  /\ UNCHANGED e_result
             ELSE /\ e_pc' = "raised"
                  /\ e_log' = Append(e_log, [status |-> status, retry_after |-> retry_after, wait |-> 0])
                  /\ UNCHANGED e_result
    /\ UNCHANGED <<e_configured, e_attempt>>

\* time.sleep(wait_time) is over: the next attempt of range(max_retries), or
\* the end of the function when the range is used up
SleepOver ==
    /\ e_pc = "sleep"
    /\ e_attempt' = e_attempt + 1
    /\ e_pc' = IF e_attempt + 1 < max_retries THEN "post" ELSE "returned"
    /\ UNCHANGED <<e_configured, e_log, e_result>>

NextEmbed ==
    \/ EmbedStart /\ UNCHANGED <<chatVars, chunkVars, ingestVars, clientVars, nameVars, limiterVars, splitVars>>
    \/ Post /\ UNCHANGED <<chatVars, chunkVars, ingestVars, clientVars, nameVars, limiterVars, splitVars>>
    \/ SleepOver /\ UNCHANGED <<chatVars, chunkVars, ingestVars, clientVars, nameVars, limiterVars, splitVars>>

\* max(5 * 2^attempt, Retry-After), Retry-After counting when it is a number of seconds
ExpectedWait(attempt, retry_after) ==
    LET backoff == <<5, 10, 20, 40>>[attempt + 1]
    IN  IF retry_after = <<"7">> THEN Max(backoff, 7)
        ELSE IF retry_after = <<"6", "0">> THEN Max(backoff, 60)
        ELSE backoff

\* C27: _embed_text issues at most 5 POST attempts per call; it returns the
\* embedding of the first successful attempt, retries only after a 429 and
\* only after waiting max(5 * 2^attempt, Retry-After) seconds, re-raises
\* without retry on any other HTTP error, re-raises when the fifth attempt
\* also gets 429, and never returns without an embedding or an exception.
C27_EmbedRetries ==
    /\ Len(e_log) <= 5
    /\ \A i \in 1..Len(e_log) :
          /\ i < Len(e_log) => /\ e_log[i].status = 429
                               /\ e_log[i].wait = ExpectedWait(i - 1, e_log[i].retry_after)
          /\ i = Len(e_log) /\ e_pc \in {"sleep", "post"} =>
                               /\ e_log[i].status = 429
                               /\ i < 5
                               /\ e_log[i].wait = ExpectedWait(i - 1, e_log[i].retry_after)
    /\ e_pc = "returned" => /\ e_log # <<>>
                            /\ e_log[Len(e_log)].status = 200
                            /\ e_result = <<"embedding", Len(e_log) - 1>>
    /\ e_pc = "raised" /\ e_log # <<>> =>
          /\ e_log[Len(e_log)].status # 200
          /\ e_log[Len(e_log)].status = 429 => Len(e_log) = 5
    /\ e_log # <<>> /\ e_log[Len(e_log)].status \notin {200, 429} => e_pc = "raised"
    /\ e_log # <<>> /\ e_log[Len(e_log)].status = 200 => e_pc = "returned"

\* the fifth attempt got 429 after four waits, one of them set by Retry-After
C27_Witness ==
    /\ e_pc = "raised"
    /\ Len(e_log) = 5
    /\ e_log[5].status = 429
    /\ e_log[1].wait = 60
    /\ e_log[2].wait = 10
    /\ e_log[3].retry_after = <<"S", "a", "t">>

(***************************************************************************)
(* VectorDB.chunk_document (workshop tools)                                *)
(***************************************************************************)
\* longest content of a document
MaxContent == 4

\* largest max_chunk_size
MaxChunkSize == 3

RECURSIVE Contents(_)
Contents(n) ==
    IF n = 0 THEN {<<>>}
    ELSE Contents(n - 1) \cup {Append(c, ch) : c \in {x \in Contents(n - 1) : Len(x) = n - 1}, ch \in {"a", "b"}}

\* documents of the index: id and content
Documents == {[id |-> <<"d">>, content |-> c] : c \in Contents(MaxContent)}

Min(a, b) == IF a <= b THEN a ELSE b

num_chunks_Floor(length, max_chunk_size) == length \div max_chunk_size

\* num_chunks = (len(content) + max_chunk_size - 1) // max_chunk_size
num_chunks(length, max_chunk_size) == (length + max_chunk_size - 1) \div max_chunk_size

\* chunk_doc of iteration i (i from 0)
chunk_doc(document, max_chunk_size, i) ==
    LET content == document.content
        start   == i * max_chunk_size
        end     == Min((i + 1) * max_chunk_size, Len(content))
    IN  [id           |-> document.id \o <<"_", "c", "h", "u", "n", "k", "_">> \o IntStr(i + 1),
         content      |-> SubSeq(content, start + 1, end),
         chunk_index  |-> i + 1,
         total_chunks |-> num_chunks(Len(content), max_chunk_size),
         original_id  |-> document.id]

chunk_document(document, max_chunk_size) ==
    IF Len(document.content) <= max_chunk_size THEN <<document>>
    ELSE [n \in 1..num_chunks(Len(document.content), max_chunk_size) |->
             chunk_doc(document, max_chunk_size, n - 1)]

SplitIdle ==
    /\ d_document = [id |-> <<"d">>, content |-> <<>>]
    /\ d_size = 1
    /\ d_pc = "idle"
    /\ d_chunks = <<>>

InitSplit ==
    /\ d_document \in Documents
    /\ d_size \in 1..MaxChunkSize
    /\ d_pc = "call"
    /\ d_chunks = <<>>

ChunkDocument ==
    /\ d_pc = "call"
    /\ d_chunks' = chunk_document(d_document, d_size)
    /\ d_pc' = "returned"
    /\ UNCHANGED <<d_document, d_size>>

NextSplit ==
    ChunkDocument /\ UNCHANGED <<chatVars, chunkVars, ingestVars, clientVars, nameVars, limiterVars, embedVars>>

RECURSIVE JoinContents(_)
JoinContents(chunks) ==
    IF chunks = <<>> THEN <<>> ELSE chunks[1].content \o JoinContents(Tail(chunks))

\* C28: chunk_document returns the document itself as the only element when
\* its content is at most max_chunk_size long; otherwise ceil(len /
\* max_chunk_size) chunks, each non-empty and at most max_chunk_size long,
\* whose concatenation in chunk_index order is the content, with chunk_index
\* running 1..total_chunks and original_id the document id.
C28_ChunkDocument ==
    d_pc = "returned" =>
        LET length == Len(d_document.content)
        IN  IF length <= d_size THEN d_chunks = <<d_document>>
            ELSE /\ Len(d_chunks) * d_size >= length
                 /\ (Len(d_chunks) - 1) * d_size < length
                 /\ JoinContents(d_chunks) = d_document.content
                 /\ \A n \in 1..Len(d_chunks) :
                       /\ d_chunks[n].content # <<>>
                       /\ Len(d_chunks[n].content) <= d_size
                       /\ d_chunks[n].chunk_index = n
                       /\ d_chunks[n].total_chunks = Len(d_chunks)
                       /\ d_chunks[n].original_id = d_document.id

\* a content of four characters split by three: a full and a shorter chunk
C28_Witness ==
    /\ d_pc = "returned"
    /\ Len(d_document.content) = 4
    /\ d_size = 3
    /\ Len(d_chunks) = 2
    /\ Len(d_chunks[2].content) = 1

(***************************************************************************)
(* Specifications: one per part of the program, the other parts idle       *)
(***************************************************************************)
ToolsIdle == ClientsIdle /\ NamesIdle /\ LimiterIdle /\ EmbedIdle /\ SplitIdle

InitSpecChat == InitChat /\ ChunkIdle /\ IngestIdle /\ ToolsIdle

SpecChat == InitSpecChat /\ [][NextChat]_vars

InitSpecChunk == InitChunk /\ ChatIdle /\ IngestIdle /\ ToolsIdle

SpecChunk == InitSpecChunk /\ [][NextChunk]_vars

InitSpecIngest == InitIngest /\ ChatIdle /\ ChunkIdle /\ ToolsIdle

SpecIngest == InitSpecIngest /\ [][NextIngest]_vars

InitSpecClients == InitClients /\ ChatIdle /\ ChunkIdle /\ IngestIdle /\ NamesIdle /\ LimiterIdle /\ EmbedIdle /\ SplitIdle

SpecClients == InitSpecClients /\ [][NextClients]_vars

InitSpecNames == InitNames /\ ChatIdle /\ ChunkIdle /\ IngestIdle /\ ClientsIdle /\ LimiterIdle /\ EmbedIdle /\ SplitIdle

SpecNames == InitSpecNames /\ [][NextNames]_vars

InitSpecLimiter == InitLimiter /\ ChatIdle /\ ChunkIdle /\ IngestIdle /\ ClientsIdle /\ NamesIdle /\ EmbedIdle /\ SplitIdle

SpecLimiter == InitSpecLimiter /\ [][NextLimiter]_vars

InitSpecEmbed == InitEmbed /\ ChatIdle /\ ChunkIdle /\ IngestIdle /\ ClientsIdle /\ NamesIdle /\ LimiterIdle /\ SplitIdle

SpecEmbed == InitSpecEmbed /\ [][NextEmbed]_vars

InitSpecSplit == InitSplit /\ ChatIdle /\ ChunkIdle /\ IngestIdle /\ ClientsIdle /\ NamesIdle /\ LimiterIdle /\ EmbedIdle

SpecSplit == InitSpecSplit /\ [][NextSplit]_vars

====
